---- MODULE Spec2Model ----
(***************************************************************************)
(* Upload staging store and linking engine of the media platform backend   *)
(* (backend/app/routes/uploads.py, backend/app/routes/media.py,            *)
(* backend/app/database.py).                                               *)
(*                                                                         *)
(* The MongoDB collections are the state.  films, episodes and uploads    *)
(* are bags of documents (a collection may hold two documents with the    *)
(* same content; whether it ever does is what the uniqueness claims are   *)
(* about).  upload_queue is a set of documents that carry the _id the      *)
(* insert gave them; _id values are handed out in increasing order, so    *)
(* the _id order is the arrival (insertion) order.                         *)
(*                                                                         *)
(* A request handler that awaits several database calls is a sequence of  *)
(* steps of one request slot p; a handler with one database call is one   *)
(* step.  The field linked_at / created_at (datetime.utcnow() written     *)
(* into films, episodes, media and uploads) is read by no handler and is  *)
(* left out of those documents; the queue's timestamp, which the queue    *)
(* reads sort on, is kept.                                                 *)
(***************************************************************************)
EXTENDS Integers, Sequences, FiniteSets, Bags

\* ------------------------------------------------------------------ bounds
\* number of insert_one calls on upload_queue in one behaviour
MaxQueue == 2
\* number of insert_one calls on media in one behaviour
MaxMedia == 2

\* ------------------------------------------------------------ input domains
Users == {"u1", "u2"}
\* datetime.utcnow() is the wall clock, stored with millisecond resolution:
\* two reads may give the same value and a later read may give a smaller one.
Clock == {1, 2}
None == "None"
\* request bodies of UploadCreate (without user_id): file_id, bot_name, message_id
Payloads ==
    { [file_id |-> "fA", bot_name |-> "botX", message_id |-> "m1"],
      [file_id |-> "fB", bot_name |-> "botY", message_id |-> None] }
Seasons == {1, 2}
\* episode_count is an unconstrained int query parameter
Counts == -1 .. MaxQueue
Slots == {1, 2}
MediaTypes == {"film", "series"}
\* ids a client may name: every ObjectId the catalog may ever hand out
MediaIds == 1 .. MaxMedia
\* a string that ObjectId() rejects
InvalidId == 0

VARIABLES
    media,          \* db.media: set of [id, type]
    nextMedia,      \* the next ObjectId of db.media
    films,          \* db.films: bag of film documents
    episodes,       \* db.episodes: bag of episode documents
    uploads,        \* db.uploads: bag of single-slot documents
    upload_queue,   \* db.upload_queue: set of queue documents (with _id)
    nextOid,        \* the next ObjectId of db.upload_queue
    pc,             \* per request slot: where its handler is
    arg,            \* per request slot: the request's arguments
    peeked,         \* per request slot: link_season_bulk's local `uploads`
    linked,         \* per request slot: link_season_bulk's local `linked`
    resp,           \* the response the latest step sent, if it sent one
    picked          \* history: the _ids of the queue documents that a bulk
                    \* link has written to an episode

vars == <<media, nextMedia, films, episodes, uploads, upload_queue, nextOid,
          pc, arg, peeked, linked, resp, picked>>

catalogVars == <<media, nextMedia>>
contentVars == <<films, episodes, picked>>
stagingVars == <<uploads, upload_queue, nextOid>>
localVars == <<arg, peeked, linked>>

NoArg == [op |-> "none"]
\* no response: the step did not end a request
NoResp == [slot |-> "none"]
\* the response `body` to the request of slot p
Reply(p, body) == [slot |-> p, body |-> body]

\* ------------------------------------------------------- collection helpers
\* the documents of bag `coll` that are in set S, counted with multiplicity
CountIn(coll, S) == BagCardinality([d \in (S \cap BagToSet(coll)) |-> coll[d]])

InsertOne(coll, doc) == coll (+) SetToBag({doc})

RemoveOne(coll, doc) == coll (-) SetToBag({doc})

\* delete_many: every copy of every document of S
RemoveAll(coll, S) == [d \in (BagToSet(coll) \ S) |-> coll[d]]

\* replace_one(filter, doc, upsert=True) with `matches` the documents that
\* satisfy the filter: the possible collections afterwards (one matching
\* document is replaced; with none, doc is inserted)
ReplaceOneInsert(coll, matches, doc) == {InsertOne(coll, doc)}

ReplaceOneFirstWins(coll, matches, doc) ==
    IF matches = {} THEN {InsertOne(coll, doc)} ELSE {coll}

ReplaceOneUpsert(coll, matches, doc) ==
    IF matches = {}
    THEN {InsertOne(coll, doc)}
    ELSE {InsertOne(RemoveOne(coll, m), doc) : m \in matches}

\* ------------------------------------------------------------- queue reads
UserQueue(user_id) == {d \in upload_queue : d.user_id = user_id}

\* the documents of S listed oldest first by _id: ObjectIds are handed out
\* in insertion order
RECURSIVE SortByArrival(_)
SortByArrival(S) ==
    IF S = {} THEN {<<>>}
    ELSE UNION {{<<d>> \o s : s \in SortByArrival(S \ {d})} :
                   d \in {x \in S : \A y \in S : x._id <= y._id}}

\* .sort("timestamp", 1): any order of S that is non-decreasing in timestamp
\* (the order of documents with equal timestamps is not specified)
RECURSIVE SortByTimestamp(_)
SortByTimestamp(S) ==
    IF S = {} THEN {<<>>}
    ELSE UNION {{<<d>> \o s : s \in SortByTimestamp(S \ {d})} :
                   d \in {x \in S : \A y \in S : x.timestamp <= y.timestamp}}

Abs(n) == IF n < 0 THEN -n ELSE n

Min(a, b) == IF a < b THEN a ELSE b

\* cursor.limit(n): 0 is "no limit"; a negative n is a limit of -n
Limit(s, n) ==
    IF n = 0 THEN s ELSE SubSeq(s, 1, Min(Abs(n), Len(s)))

\* ---------------------------------------------------------------- Init
Init ==
    /\ media = {}
    /\ nextMedia = 1
    /\ films = EmptyBag
    /\ episodes = EmptyBag
    /\ uploads = EmptyBag
    /\ upload_queue = {}
    /\ nextOid = 1
    /\ pc = [p \in Slots |-> "idle"]
    /\ arg = [p \in Slots |-> NoArg]
    /\ peeked = [p \in Slots |-> <<>>]
    /\ linked = [p \in Slots |-> <<>>]
    /\ resp = NoResp
    /\ picked = {}

\* ============================================================ uploads.py
add_to_queue_dedup(p, user_id, data_user_id, data, now) ==
    /\ pc[p] = "idle"
    /\ nextOid <= MaxQueue
    /\ upload_queue' =
           IF \E e \in UserQueue(data_user_id) : e.file_id = data.file_id
           THEN upload_queue
           ELSE upload_queue \cup
                    { [_id |-> nextOid, user_id |-> data_user_id,
                       file_id |-> data.file_id, bot_name |-> data.bot_name,
                       message_id |-> data.message_id, timestamp |-> now] }
    /\ nextOid' = nextOid + 1
    /\ resp' = Reply(p,
           [code |-> 200, op |-> "add_to_queue", path_user |-> user_id,
            success |-> TRUE, id |-> nextOid])
    /\ UNCHANGED <<catalogVars, contentVars, uploads, pc, localVars>>

\* POST /{user_id}/queue.  The document is built from the body alone
\* (data.model_dump()); the path parameter user_id is not used.
add_to_queue(p, user_id, data_user_id, data, now) ==
    /\ pc[p] = "idle"
    /\ nextOid <= MaxQueue
    /\ upload_queue' = upload_queue \cup
           { [_id |-> nextOid, user_id |-> data_user_id,
              file_id |-> data.file_id, bot_name |-> data.bot_name,
              message_id |-> data.message_id, timestamp |-> now] }
    /\ nextOid' = nextOid + 1
    /\ resp' = Reply(p,
           [code |-> 200, op |-> "add_to_queue", path_user |-> user_id,
            success |-> TRUE, id |-> nextOid])
    /\ UNCHANGED <<catalogVars, contentVars, uploads, pc, localVars>>

\* GET /{user_id}/queue
get_queue(p, user_id) ==
    /\ pc[p] = "idle"
    /\ \E queue \in SortByTimestamp(UserQueue(user_id)) :
           resp' = Reply(p,
               [code |-> 200, op |-> "get_queue", user_id |-> user_id,
                queue |-> queue])
    /\ UNCHANGED <<catalogVars, contentVars, stagingVars, pc, localVars>>

\* GET /{user_id}/queue/count
get_queue_count(p, user_id) ==
    /\ pc[p] = "idle"
    /\ resp' = Reply(p,
           [code |-> 200, op |-> "get_queue_count",
            count |-> Cardinality(UserQueue(user_id)), user_id |-> user_id])
    /\ UNCHANGED <<catalogVars, contentVars, stagingVars, pc, localVars>>

clear_queue_every(p, user_id) ==
    /\ pc[p] = "idle"
    /\ upload_queue' = IF UserQueue(user_id) = {} THEN upload_queue ELSE {}
    /\ resp' = Reply(p,
           [code |-> 200, op |-> "clear_queue", user_id |-> user_id,
            deleted |-> Cardinality(UserQueue(user_id))])
    /\ UNCHANGED <<catalogVars, contentVars, uploads, nextOid, pc, localVars>>

\* DELETE /{user_id}/queue
clear_queue(p, user_id) ==
    /\ pc[p] = "idle"
    /\ upload_queue' = upload_queue \ UserQueue(user_id)
    /\ resp' = Reply(p,
           [code |-> 200, op |-> "clear_queue", user_id |-> user_id,
            deleted |-> Cardinality(UserQueue(user_id))])
    /\ UNCHANGED <<catalogVars, contentVars, uploads, nextOid, pc, localVars>>

\* DELETE /{user_id}/queue/{file_id}: delete_one removes one matching
\* document (which one, when several match, is the store's choice)
remove_from_queue(p, user_id, file_id) ==
    /\ pc[p] = "idle"
    /\ LET matches == {d \in UserQueue(user_id) : d.file_id = file_id}
       IN  /\ IF matches = {}
              THEN upload_queue' = upload_queue
              ELSE \E d \in matches : upload_queue' = upload_queue \ {d}
           /\ resp' = Reply(p,
                  [code |-> 200, op |-> "remove_from_queue",
                   user_id |-> user_id, file_id |-> file_id,
                   deleted |-> (matches # {})])
    /\ UNCHANGED <<catalogVars, contentVars, uploads, nextOid, pc, localVars>>

\* -------------------------------------------------- single upload (legacy)
UploadsOf(user_id) == {d \in BagToSet(uploads) : d.user_id = user_id}

UploadDoc(user_id, data) ==
    [user_id |-> user_id, file_id |-> data.file_id,
     bot_name |-> data.bot_name, message_id |-> data.message_id]

\* POST /: db.uploads.replace_one({"user_id": ..}, doc, upsert=True).
\* db.uploads has a plain, not a unique, index on user_id
\* (create_indexes), so the store does not make the upsert atomic: it
\* replaces a matching document if it finds one, and otherwise inserts, and
\* another request's insert may happen between its search and its insert.
save_upload(p, data_user_id, data) ==
    /\ pc[p] = "idle"
    /\ LET doc == UploadDoc(data_user_id, data)
           matches == UploadsOf(data_user_id)
       IN  IF matches # {}
           THEN /\ \E c \in ReplaceOneUpsert(uploads, matches, doc) :
                       uploads' = c
                /\ resp' = Reply(p,
                       [code |-> 200, op |-> "save_upload", success |-> TRUE,
                        user_id |-> data_user_id])
                /\ UNCHANGED <<pc, arg>>
           ELSE /\ pc' = [pc EXCEPT ![p] = "save_insert"]
                /\ arg' = [arg EXCEPT ![p] = [op |-> "save_upload", doc |-> doc]]
                /\ resp' = NoResp
                /\ UNCHANGED uploads
    /\ UNCHANGED <<catalogVars, contentVars, upload_queue, nextOid, peeked, linked>>

\* the insert half of save_upload's upsert, and its return
save_upload_insert(p) ==
    /\ pc[p] = "save_insert"
    /\ uploads' = InsertOne(uploads, arg[p].doc)
    /\ pc' = [pc EXCEPT ![p] = "idle"]
    /\ arg' = [arg EXCEPT ![p] = NoArg]
    /\ resp' = Reply(p,
           [code |-> 200, op |-> "save_upload", success |-> TRUE,
            user_id |-> arg[p].doc.user_id])
    /\ UNCHANGED <<catalogVars, contentVars, upload_queue, nextOid, peeked, linked>>

\* GET /{user_id}
get_upload(p, user_id) ==
    /\ pc[p] = "idle"
    /\ IF UploadsOf(user_id) = {}
       THEN resp' = Reply(p,
                [code |-> 404, op |-> "get_upload", detail |-> "No upload found"])
       ELSE \E upload \in UploadsOf(user_id) :
                resp' = Reply(p,
                    [code |-> 200, op |-> "get_upload", upload |-> upload])
    /\ UNCHANGED <<catalogVars, contentVars, stagingVars, pc, localVars>>

clear_upload_all(p, user_id) ==
    /\ pc[p] = "idle"
    /\ uploads' = RemoveAll(uploads, UploadsOf(user_id))
    /\ upload_queue' = upload_queue \ UserQueue(user_id)
    /\ resp' = Reply(p,
           [code |-> 200, op |-> "clear_upload", user_id |-> user_id,
            deleted |-> (UploadsOf(user_id) # {})])
    /\ UNCHANGED <<catalogVars, contentVars, nextOid, pc, localVars>>

\* DELETE /{user_id}
clear_upload(p, user_id) ==
    /\ pc[p] = "idle"
    /\ IF UploadsOf(user_id) = {}
       THEN uploads' = uploads
       ELSE \E d \in UploadsOf(user_id) : uploads' = RemoveOne(uploads, d)
    /\ resp' = Reply(p,
           [code |-> 200, op |-> "clear_upload", user_id |-> user_id,
            deleted |-> (UploadsOf(user_id) # {})])
    /\ UNCHANGED <<catalogVars, contentVars, upload_queue, nextOid, pc, localVars>>

\* the single-slot store alone, two requests in flight
NextStaging ==
    \E p \in Slots :
        \/ \E u \in Users, d \in Payloads : save_upload(p, u, d)
        \/ save_upload_insert(p)
        \/ \E u \in Users : get_upload(p, u)
        \/ \E u \in Users : clear_upload(p, u)

SpecStaging == Init /\ [][NextStaging]_vars

\* ============================================================== media.py
\* A title id in a request is a string of 24 hex digits.  ObjectId(..)
\* parses it with bytes.fromhex, which reads upper-case and lower-case
\* digits alike; str(ObjectId) is the lower-case string.  The lower-case
\* string of the n-th ObjectId is written n and its upper-case spelling -n.
UpperCase(media_id) == -media_id

ObjectId(media_id) == Abs(media_id)

\* db.media.find_one({"_id": ObjectId(media_id)})
Lookup(media_id) == {m \in media : m.id = ObjectId(media_id)}

\* POST /: insert_one gives the new title a fresh ObjectId
create_media(p, type) ==
    /\ pc[p] = "idle"
    /\ nextMedia <= MaxMedia
    /\ media' = media \cup {[id |-> nextMedia, type |-> type]}
    /\ nextMedia' = nextMedia + 1
    /\ resp' = Reply(p,
           [code |-> 200, op |-> "create_media", id |-> nextMedia, type |-> type])
    /\ UNCHANGED <<contentVars, stagingVars, pc, localVars>>

FilmsOf(media_id) == {d \in BagToSet(films) : d.media_id = media_id}

EpisodesOf(media_id) == {d \in BagToSet(episodes) : d.media_id = media_id}

EpisodesAt(media_id, season_number, episode_number) ==
    {d \in EpisodesOf(media_id) :
        /\ d.season_number = season_number
        /\ d.episode_number = episode_number}

\* DELETE /{media_id}: three awaited calls, delete_one on media, then
\* delete_many on films, then delete_many on episodes
delete_media(p, media_id) ==
    /\ pc[p] = "idle"
    /\ IF media_id = InvalidId
       THEN /\ resp' = Reply(p,
                   [code |-> 400, op |-> "delete_media", detail |-> "Invalid media ID"])
            /\ UNCHANGED <<media, pc, arg>>
       ELSE IF Lookup(media_id) = {}
       THEN /\ resp' = Reply(p,
                   [code |-> 404, op |-> "delete_media", detail |-> "Media not found"])
            /\ UNCHANGED <<media, pc, arg>>
       ELSE /\ media' = media \ Lookup(media_id)
            /\ pc' = [pc EXCEPT ![p] = "delete_films"]
            /\ arg' = [arg EXCEPT ![p] = [op |-> "delete_media", media_id |-> media_id]]
            /\ resp' = NoResp
    /\ UNCHANGED <<nextMedia, contentVars, stagingVars, peeked, linked>>

delete_media_films(p) ==
    /\ pc[p] = "delete_films"
    /\ films' = RemoveAll(films, FilmsOf(arg[p].media_id))
    /\ pc' = [pc EXCEPT ![p] = "delete_episodes"]
    /\ resp' = NoResp
    /\ UNCHANGED <<catalogVars, episodes, picked, stagingVars, localVars>>

delete_media_episodes(p) ==
    /\ pc[p] = "delete_episodes"
    /\ episodes' = RemoveAll(episodes, EpisodesOf(arg[p].media_id))
    /\ pc' = [pc EXCEPT ![p] = "idle"]
    /\ arg' = [arg EXCEPT ![p] = NoArg]
    /\ resp' = Reply(p,
           [code |-> 200, op |-> "delete_media", deleted |-> TRUE])
    /\ UNCHANGED <<catalogVars, films, picked, stagingVars, peeked, linked>>

\* --------------------------------------------------------- film linking
\* the checks passed
Pass == [code |-> 200]

\* the error response of link_film's checks, or Pass
FilmCheckNone(film_id) == Pass

FilmCheck(film_id) ==
    IF film_id = InvalidId
    THEN [code |-> 400, op |-> "link_film", detail |-> "Invalid film ID"]
    ELSE IF Lookup(film_id) = {}
    THEN [code |-> 404, op |-> "link_film", detail |-> "Film not found"]
    ELSE IF \E m \in Lookup(film_id) : m.type # "film"
    THEN [code |-> 400, op |-> "link_film", detail |-> "Media is not a film"]
    ELSE Pass

FilmDoc(data) ==
    [media_id |-> data.film_id, file_id |-> data.file_id,
     message_id |-> data.message_id, storage_bot |-> data.storage_bot,
     uploader_id |-> data.uploader_id]

\* POST /film/link: find_one on media and the checks
link_film(p, data) ==
    /\ pc[p] = "idle"
    /\ IF FilmCheck(data.film_id) # Pass
       THEN /\ resp' = Reply(p, FilmCheck(data.film_id))
            /\ UNCHANGED <<pc, arg>>
       ELSE /\ pc' = [pc EXCEPT ![p] = "film_replace"]
            /\ arg' = [arg EXCEPT ![p] = [op |-> "link_film", doc |-> FilmDoc(data)]]
            /\ resp' = NoResp
    /\ UNCHANGED <<catalogVars, contentVars, stagingVars, peeked, linked>>

\* db.films.replace_one({"media_id": ..}, doc, upsert=True) and the return.
\* db.films has a unique index on media_id and db.episodes one on
\* (media_id, season_number, episode_number), so an upsert that finds a
\* document of its key replaces it whenever that document was written.
link_film_replace(p) ==
    /\ pc[p] = "film_replace"
    /\ \E c \in ReplaceOneUpsert(films, FilmsOf(arg[p].doc.media_id), arg[p].doc) :
           films' = c
    /\ pc' = [pc EXCEPT ![p] = "idle"]
    /\ arg' = [arg EXCEPT ![p] = NoArg]
    /\ resp' = Reply(p,
           [code |-> 200, op |-> "link_film", success |-> TRUE,
            film_id |-> arg[p].doc.media_id])
    /\ UNCHANGED <<catalogVars, episodes, picked, stagingVars, peeked, linked>>

\* ------------------------------------------------------ episode linking
EpisodeCheck(media_id) ==
    IF media_id = InvalidId
    THEN [code |-> 400, op |-> "link_episode", detail |-> "Invalid media ID"]
    ELSE IF Lookup(media_id) = {}
    THEN [code |-> 404, op |-> "link_episode", detail |-> "Series not found"]
    ELSE IF \E m \in Lookup(media_id) : m.type # "series"
    THEN [code |-> 400, op |-> "link_episode", detail |-> "Media is not a series"]
    ELSE Pass

EpisodeDoc(media_id, season_number, episode_number, upload, uploader_id) ==
    [media_id |-> media_id, season_number |-> season_number,
     episode_number |-> episode_number, file_id |-> upload.file_id,
     message_id |-> upload.message_id, storage_bot |-> upload.bot_name,
     uploader_id |-> uploader_id]

\* POST /episode/link: find_one on media and the checks.  data carries
\* file_id, message_id and storage_bot (read here as bot_name).
link_episode(p, media_id, season_number, episode_number, data, uploader_id) ==
    /\ pc[p] = "idle"
    /\ IF EpisodeCheck(media_id) # Pass
       THEN /\ resp' = Reply(p, EpisodeCheck(media_id))
            /\ UNCHANGED <<pc, arg>>
       ELSE /\ pc' = [pc EXCEPT ![p] = "episode_replace"]
            /\ arg' = [arg EXCEPT ![p] =
                   [op |-> "link_episode",
                    doc |-> EpisodeDoc(media_id, season_number, episode_number,
                                       data, uploader_id)]]
            /\ resp' = NoResp
    /\ UNCHANGED <<catalogVars, contentVars, stagingVars, peeked, linked>>

link_episode_replace(p) ==
    /\ pc[p] = "episode_replace"
    /\ LET doc == arg[p].doc
       IN  \E c \in ReplaceOneUpsert(episodes,
                       EpisodesAt(doc.media_id, doc.season_number, doc.episode_number),
                       doc) :
               episodes' = c
    /\ pc' = [pc EXCEPT ![p] = "idle"]
    /\ arg' = [arg EXCEPT ![p] = NoArg]
    /\ resp' = Reply(p,
           [code |-> 200, op |-> "link_episode", success |-> TRUE])
    /\ UNCHANGED <<catalogVars, films, picked, stagingVars, peeked, linked>>

\* DELETE /{media_id}/season/{season}/episode/{episode}: delete_one on the
\* episode key; media_id is compared as the string it is, db.media is not read
delete_episode(p, media_id, season, episode) ==
    /\ pc[p] = "idle"
    /\ IF EpisodesAt(media_id, season, episode) = {}
       THEN /\ resp' = Reply(p,
                   [code |-> 404, op |-> "delete_episode",
                    detail |-> "Episode not found"])
            /\ UNCHANGED episodes
       ELSE /\ \E d \in EpisodesAt(media_id, season, episode) :
                   episodes' = RemoveOne(episodes, d)
            /\ resp' = Reply(p,
                   [code |-> 200, op |-> "delete_episode", deleted |-> TRUE])
    /\ UNCHANGED <<catalogVars, films, picked, stagingVars, pc, localVars>>

\* -------------------------------------------------- bulk season linking
\* the documents db.upload_queue.find(..) selects
BulkQueryAll(uploader_id) == upload_queue

BulkQueryUnclaimed(uploader_id) ==
    {d \in UserQueue(uploader_id) :
        \A q \in Slots : \A i \in 1 .. Len(peeked[q]) : peeked[q][i] # d}

BulkQuery(uploader_id) == UserQueue(uploader_id)

\* find({"user_id": uploader_id}).sort("timestamp", 1).limit(episode_count):
\* the lists the cursor may yield
BulkFind(uploader_id, episode_count) ==
    {Limit(s, episode_count) : s \in SortByTimestamp(BulkQuery(uploader_id))}

\* enumerate(uploads): episode_num = i + 1 is the 1-based position
EpisodeNum(position) == position

\* where the loop goes after the item at `position`
AfterItemStop(p, position) == "bulk_return"

AfterItem(p, position) ==
    IF position = Len(peeked[p]) THEN "bulk_return" ELSE "bulk_upsert"

\* POST /season/link-bulk up to the guard: the find, and the 400 when the
\* cursor gave fewer documents than episode_count.  media_id is not looked
\* up in db.media.
link_season_bulk(p, media_id, season_number, episode_count, uploader_id) ==
    /\ pc[p] = "idle"
    /\ \E found \in BulkFind(uploader_id, episode_count) :
           IF Len(found) < episode_count
           THEN /\ resp' = Reply(p,
                       [code |-> 400, op |-> "link_season_bulk",
                        detail |-> "Not enough uploads",
                        found |-> Len(found), need |-> episode_count])
                /\ UNCHANGED <<pc, arg, peeked, linked>>
           ELSE /\ peeked' = [peeked EXCEPT ![p] = found]
                /\ linked' = [linked EXCEPT ![p] = <<>>]
                /\ arg' = [arg EXCEPT ![p] =
                       [op |-> "link_season_bulk", media_id |-> media_id,
                        season_number |-> season_number,
                        episode_count |-> episode_count,
                        uploader_id |-> uploader_id]]
                /\ pc' = [pc EXCEPT ![p] =
                       IF found = <<>> THEN "bulk_return" ELSE "bulk_upsert"]
                /\ resp' = NoResp
    /\ UNCHANGED <<catalogVars, contentVars, stagingVars>>

\* the position of the item the loop is at
BulkPos(p) == Len(linked[p]) + 1

\* linked.append({.., "success": False, "error": str(e)}): the error text
\* is that of the call that raised
BulkFailureDropped(p, call) == linked[p]

BulkFailure(p, call) ==
    Append(linked[p],
           [episode |-> EpisodeNum(BulkPos(p)), success |-> FALSE,
            error |-> call])

\* one iteration up to db.episodes.replace_one(.., upsert=True): the write
\* is applied, or it raises and the except branch records the failure
link_season_bulk_upsert(p, ok) ==
    /\ pc[p] = "bulk_upsert"
    /\ LET upload == peeked[p][BulkPos(p)]
           episode_num == EpisodeNum(BulkPos(p))
           doc == EpisodeDoc(arg[p].media_id, arg[p].season_number,
                             episode_num, upload, arg[p].uploader_id)
       IN  IF ok
           THEN /\ \E c \in ReplaceOneUpsert(episodes,
                               EpisodesAt(arg[p].media_id, arg[p].season_number,
                                          episode_num),
                               doc) :
                       episodes' = c
                /\ picked' = picked \cup {upload._id}
                /\ pc' = [pc EXCEPT ![p] = "bulk_dequeue"]
                /\ UNCHANGED linked
           ELSE /\ linked' = [linked EXCEPT ![p] = BulkFailure(p, "replace_one")]
                /\ pc' = [pc EXCEPT ![p] = AfterItem(p, BulkPos(p))]
                /\ UNCHANGED <<episodes, picked>>
    /\ resp' = NoResp
    /\ UNCHANGED <<catalogVars, films, stagingVars, arg, peeked>>

\* the rest of the iteration: db.upload_queue.delete_one({"_id": ..}) and
\* linked.append(success), or the except branch when delete_one raises.
\* delete_one of a document that is no longer there is not an error.
DequeueByFileId(upload) ==
    {d \in upload_queue : d.file_id # upload.file_id}

DequeueOldest(upload) ==
    {d \in upload_queue :
        \/ d.user_id # upload.user_id
        \/ \E e \in UserQueue(upload.user_id) : e._id < d._id}

Dequeue(upload) == {d \in upload_queue : d._id # upload._id}

link_season_bulk_dequeue(p, ok) ==
    /\ pc[p] = "bulk_dequeue"
    /\ IF ok
       THEN /\ upload_queue' = Dequeue(peeked[p][BulkPos(p)])
            /\ linked' = [linked EXCEPT ![p] =
                   Append(linked[p],
                          [episode |-> EpisodeNum(BulkPos(p)), success |-> TRUE])]
       ELSE /\ linked' = [linked EXCEPT ![p] = BulkFailure(p, "delete_one")]
            /\ UNCHANGED upload_queue
    /\ pc' = [pc EXCEPT ![p] = AfterItem(p, BulkPos(p))]
    /\ resp' = NoResp
    /\ UNCHANGED <<catalogVars, contentVars, uploads, nextOid, arg, peeked>>

SuccessCount(details) ==
    Cardinality({i \in 1 .. Len(details) : details[i].success})

\* after the loop: success_count and the 200 response
link_season_bulk_return(p) ==
    /\ pc[p] = "bulk_return"
    /\ resp' = Reply(p,
           [code |-> 200, op |-> "link_season_bulk",
            media_id |-> arg[p].media_id, season |-> arg[p].season_number,
            total_episodes |-> arg[p].episode_count,
            linked_successfully |-> SuccessCount(linked[p]),
            details |-> linked[p]])
    /\ pc' = [pc EXCEPT ![p] = "idle"]
    /\ arg' = [arg EXCEPT ![p] = NoArg]
    /\ peeked' = [peeked EXCEPT ![p] = <<>>]
    /\ linked' = [linked EXCEPT ![p] = <<>>]
    /\ UNCHANGED <<catalogVars, contentVars, stagingVars>>

\* ------------------------------------------------------- specifications
\* no request is in flight
Quiet == \A q \in Slots : pc[q] = "idle"

\* Every handler, on every request slot, with every input.  Its state space
\* is the product of all the stores; each property below is checked under
\* the specification that holds the handlers it is about.
Next ==
    \E p \in Slots :
        \/ \E u, v \in Users, d \in Payloads, now \in Clock :
               add_to_queue(p, u, v, d, now)
        \/ \E u \in Users : get_queue(p, u)
        \/ \E u \in Users : get_queue_count(p, u)
        \/ \E u \in Users : clear_queue(p, u)
        \/ \E u \in Users, d \in Payloads : remove_from_queue(p, u, d.file_id)
        \/ \E u \in Users, d \in Payloads : save_upload(p, u, d)
        \/ save_upload_insert(p)
        \/ \E u \in Users : get_upload(p, u)
        \/ \E u \in Users : clear_upload(p, u)
        \/ \E t \in MediaTypes : create_media(p, t)
        \/ \E m \in MediaIds \cup {InvalidId} : delete_media(p, m)
        \/ delete_media_films(p)
        \/ delete_media_episodes(p)
        \/ \E m \in MediaIds \cup {InvalidId}, d \in Payloads, u \in Users :
               link_film(p, [film_id |-> m, file_id |-> d.file_id,
                             message_id |-> d.message_id,
                             storage_bot |-> d.bot_name, uploader_id |-> u])
        \/ link_film_replace(p)
        \/ \E m \in MediaIds \cup {InvalidId}, sn \in Seasons,
                e \in 1 .. MaxQueue, d \in Payloads, u \in Users :
               link_episode(p, m, sn, e, d, u)
        \/ link_episode_replace(p)
        \/ \E m \in MediaIds, sn \in Seasons, e \in 1 .. MaxQueue :
               delete_episode(p, m, sn, e)
        \/ \E m \in MediaIds, sn \in Seasons, n \in Counts, u \in Users :
               link_season_bulk(p, m, sn, n, u)
        \/ \E ok \in BOOLEAN : link_season_bulk_upsert(p, ok)
        \/ \E ok \in BOOLEAN : link_season_bulk_dequeue(p, ok)
        \/ link_season_bulk_return(p)

Spec == Init /\ [][Next]_vars

\* The queue and the bulk link with requests served one at a time: a
\* request starts only when no other is in flight.  Both users queue
\* uploads; the bulk links are u1's, for season 1 of title 1.
NextLink ==
    \E p \in {1} :
        \/ \E u \in Users, d \in Payloads, now \in Clock :
               Quiet /\ add_to_queue(p, u, u, d, now)
        \/ \E u \in Users : Quiet /\ get_queue(p, u)
        \/ \E u \in Users : Quiet /\ get_queue_count(p, u)
        \/ \E m \in {1}, sn \in {1}, n \in Counts, u \in {"u1"} :
               Quiet /\ link_season_bulk(p, m, sn, n, u)
        \/ \E ok \in BOOLEAN : link_season_bulk_upsert(p, ok)
        \/ \E ok \in BOOLEAN : link_season_bulk_dequeue(p, ok)
        \/ link_season_bulk_return(p)

SpecLink == Init /\ [][NextLink]_vars

\* ================================================================ claims
\* the elements of a sequence
Range(s) == {s[i] : i \in 1 .. Len(s)}

\* S in arrival (insertion) order
ArrivalOrder(S) == CHOOSE f \in SortByArrival(S) : TRUE

\* the first k documents of S in arrival order
OldestByArrival(S, k) == SubSeq(ArrivalOrder(S), 1, Min(k, Cardinality(S)))

\* In SpecLink, while slot p is inside link_season_bulk: the uploader's
\* queue as it was when the request peeked (only p removes entries, and
\* only peeked ones)
QueueAtPeek(p) == UserQueue(arg[p].uploader_id) \cup Range(peeked[p])

AllSucceeded(details) == \A i \in 1 .. Len(details) : details[i].success

\* the attachment stored under an episode key is exactly `doc`, once
HoldsEpisode(media_id, season_number, episode_number, doc) ==
    /\ EpisodesAt(media_id, season_number, episode_number) = {doc}
    /\ CountIn(episodes, {doc}) = 1

\* C1: a bulk link asked for n entries while the uploader's queue holds
\* fewer than n answers 400 with found = the queue length and need = n, and
\* leaves the queue, the single slot, the attachments and the catalog as
\* they were.
C1_BulkGuard ==
    [][\A u \in Users, n \in Counts :
          (pc[1] = "idle" /\ Cardinality(UserQueue(u)) < n) =>
          (link_season_bulk(1, 1, 1, n, u)
           => /\ resp' = Reply(1, [code |-> 400, op |-> "link_season_bulk",
                                    detail |-> "Not enough uploads",
                                    found |-> Cardinality(UserQueue(u)),
                                    need |-> n])
              /\ pc'[1] = "idle"
              /\ UNCHANGED <<upload_queue, uploads, films, episodes, media>>)]_vars

\* C1 witness: a request for 2 was refused with found = 1 while the other
\* owner had an entry queued as well
C1_Witness ==
    /\ resp = Reply(1, [code |-> 400, op |-> "link_season_bulk",
                        detail |-> "Not enough uploads", found |-> 1, need |-> 2])
    /\ Cardinality(upload_queue) = 2

\* C2 (as claimed): after a bulk link of n whose items all succeeded,
\* episode i of the season holds the content of the i-th oldest entry, by
\* arrival, of the queue the request found.
C2_PositionalByArrival ==
    \A p \in Slots :
        (pc[p] = "bulk_return" /\ AllSucceeded(linked[p]))
        => \A i \in 1 .. arg[p].episode_count :
               i <= Cardinality(QueueAtPeek(p))
               /\ HoldsEpisode(arg[p].media_id, arg[p].season_number, i,
                      EpisodeDoc(arg[p].media_id, arg[p].season_number, i,
                                 ArrivalOrder(QueueAtPeek(p))[i],
                                 arg[p].uploader_id))

\* C3 (as claimed): with no entry removed so far, List queue returns the
\* owner's entries in arrival order, and a bulk link that passes its guard
\* with episode_count = k >= 1 peeks the k oldest entries by arrival, in
\* arrival order.
NoRemovalYet == Cardinality(upload_queue) = nextOid - 1

C3_FifoByArrival ==
    [][NoRemovalYet =>
          /\ \A p \in Slots, u \in Users :
                 (pc[p] = "idle" /\ get_queue(p, u))
                 => resp'.body.queue = ArrivalOrder(UserQueue(u))
          /\ \A p \in Slots, m \in MediaIds, sn \in Seasons, u \in Users :
                 \A k \in 1 .. MaxQueue :
                     (/\ pc[p] = "idle"
                      /\ pc'[p] # "idle"
                      /\ link_season_bulk(p, m, sn, k, u))
                     => peeked'[p] = OldestByArrival(UserQueue(u), k)]_vars

\* C4: a bulk link whose n items all succeeded (requests served one at a
\* time) has gone through n distinct entries and none of them is queued any
\* more, so no later peek or List queue returns one; each of its successful
\* dequeue steps removes exactly the entry of its position, which was
\* queued, and no other step of the request changes the queue: the count is
\* n lower and the other entries are queued as they were.  n is the number
\* of items of the batch.
C4_State ==
    \A p \in Slots :
        (pc[p] = "bulk_return" /\ AllSucceeded(linked[p]))
        => LET n == Len(peeked[p])
               owner == arg[p].uploader_id
           IN  /\ Len(linked[p]) = n
               /\ Cardinality(Range(peeked[p])) = n
               /\ Range(peeked[p]) \cap upload_queue = {}
               /\ \A k \in 0 .. MaxQueue, q \in SortByTimestamp(UserQueue(owner)) :
                      Range(Limit(q, k)) \cap Range(peeked[p]) = {}

C4_Step ==
    \A p \in Slots :
        pc[p] \in {"bulk_upsert", "bulk_dequeue", "bulk_return"}
        => IF /\ pc[p] = "bulk_dequeue"
              /\ Len(linked'[p]) = Len(linked[p]) + 1
              /\ linked'[p][Len(linked'[p])].success
           THEN /\ peeked[p][BulkPos(p)] \in upload_queue
                /\ upload_queue' = upload_queue \ {peeked[p][BulkPos(p)]}
           ELSE upload_queue' = upload_queue

C4_Consumption == []C4_State /\ [][C4_Step]_vars

\* C4 witness: a batch of 1 has ended with its item linked and dequeued
\* while another entry of the same owner is still queued
C4_Witness ==
    /\ pc[1] = "bulk_return"
    /\ Len(peeked[1]) = 1
    /\ AllSucceeded(linked[1])
    /\ Cardinality(UserQueue(arg[1].uploader_id)) = 1

\* the item at position i of slot p's batch failed in replace_one and every
\* other item succeeded
OnlyUpsertFailedAt(p, i) ==
    /\ Len(linked[p]) = Len(peeked[p])
    /\ i \in 1 .. Len(linked[p])
    /\ ~linked[p][i].success
    /\ linked[p][i].error = "replace_one"
    /\ \A j \in 1 .. Len(linked[p]) : j # i => linked[p][j].success

\* C5: when the upsert of the item at position i fails and every other item
\* of the batch of n succeeds, the loop has gone through all n positions,
\* n - 1 items are counted as successes, the only failure detail is that of
\* episode i, entry i is still queued, and every other entry j is stored as
\* episode j and is dequeued; and the step in which an upsert fails writes
\* no attachment and removes no queue entry, and goes on to the next item.
C5_State ==
    \A p \in Slots :
        pc[p] = "bulk_return"
        => /\ Len(linked[p]) = Len(peeked[p])
           /\ \A i \in 1 .. Len(peeked[p]) :
                  OnlyUpsertFailedAt(p, i)
                  => /\ SuccessCount(linked[p]) = Len(peeked[p]) - 1
                     /\ \A j \in 1 .. Len(linked[p]) : linked[p][j].episode = j
                     /\ peeked[p][i] \in upload_queue
                     /\ \A j \in 1 .. Len(peeked[p]) :
                            j # i =>
                            /\ peeked[p][j] \notin upload_queue
                            /\ HoldsEpisode(arg[p].media_id, arg[p].season_number, j,
                                   EpisodeDoc(arg[p].media_id, arg[p].season_number,
                                              j, peeked[p][j], arg[p].uploader_id))

C5_Step ==
    \A p \in Slots :
        (pc[p] = "bulk_upsert" /\ Len(linked'[p]) = Len(linked[p]) + 1)
        => /\ UNCHANGED <<episodes, upload_queue>>
           /\ pc'[p] = IF Len(linked'[p]) < Len(peeked[p])
                       THEN "bulk_upsert" ELSE "bulk_return"

C5_PartialFailure == []C5_State /\ [][C5_Step]_vars

\* C5 witness: a batch of 2 has ended with the upsert of item 1 failed and
\* item 2 linked
C5_Witness ==
    /\ pc[1] = "bulk_return"
    /\ Len(peeked[1]) = 2
    /\ OnlyUpsertFailedAt(1, 1)

\* The catalog and the three link operations for one uploader, two
\* requests in flight: slot 1 serves any request, slot 2 serves link_film
\* and link_episode requests that run between the steps of slot 1's.  Bulk
\* links and single episode links address season 1 of title 1; the uploads
\* queued carry the handle fA, and no database call fails.
NextContent ==
    \/ \E t \in MediaTypes : create_media(1, t)
    \/ add_to_queue(1, "u1", "u1", CHOOSE d \in Payloads : d.file_id = "fA", 1)
    \/ \E n \in 1 .. MaxQueue : link_season_bulk(1, 1, 1, n, "u1")
    \/ link_season_bulk_upsert(1, TRUE)
    \/ link_season_bulk_dequeue(1, TRUE)
    \/ link_season_bulk_return(1)
    \/ \E p \in Slots :
           \/ \E m \in MediaIds \cup {InvalidId}, d \in Payloads :
                  link_film(p, [film_id |-> m, file_id |-> d.file_id,
                                message_id |-> d.message_id,
                                storage_bot |-> d.bot_name,
                                uploader_id |-> "u1"])
           \/ link_film_replace(p)
           \/ \E d \in Payloads : link_episode(p, 1, 1, 1, d, "u1")
           \/ link_episode_replace(p)

SpecContent == Init /\ [][NextContent]_vars

KindOf(media_id) ==
    IF Lookup(media_id) = {} THEN "absent"
    ELSE (CHOOSE m \in Lookup(media_id) : TRUE).type

\* C6 (as claimed): a bulk link whose title is not in the catalog, or is a
\* film, ends at once with an error response, 404 for a missing title and
\* 400 for a film, and goes on to no write; stated for the requests the
\* queue guard lets through (1 <= n <= queue length).
C6_BulkResolvesTitle ==
    [][\A p \in Slots :
          pc[p] = "idle" =>
          \A m \in MediaIds :
              KindOf(m) # "series" =>
              \A u \in Users, n \in 1 .. MaxQueue :
                  n <= Cardinality(UserQueue(u)) =>
                  \A sn \in Seasons :
                      link_season_bulk(p, m, sn, n, u)
                      => /\ pc'[p] = "idle"
                         /\ resp'.slot = p
                         /\ resp'.body.code =
                                (IF KindOf(m) = "absent" THEN 404 ELSE 400)
                         /\ UNCHANGED <<episodes, upload_queue>>]_vars

\* C7: link_film with an id that is not in the catalog answers 404 "Film
\* not found", and with the id of a series 400 "Media is not a film"; either
\* way, and for a malformed id too, the request ends there: nothing is
\* written to films, episodes, the single slot or the queue.  (The link
\* requests of SpecContent carry uploader u1.)
C7_FilmRejected ==
    [][\A p \in Slots :
          pc[p] = "idle" =>
          \A m \in MediaIds \cup {InvalidId} :
              KindOf(m) # "film" =>
              \A d \in Payloads :
                  link_film(p, [film_id |-> m, file_id |-> d.file_id,
                                message_id |-> d.message_id,
                                storage_bot |-> d.bot_name, uploader_id |-> "u1"])
                  => /\ pc'[p] = "idle"
                     /\ resp'.slot = p
                     /\ m # InvalidId =>
                            resp'.body =
                                IF KindOf(m) = "absent"
                                THEN [code |-> 404, op |-> "link_film",
                                      detail |-> "Film not found"]
                                ELSE [code |-> 400, op |-> "link_film",
                                      detail |-> "Media is not a film"]
                     /\ resp'.body.code # 200
                     /\ UNCHANGED <<films, episodes, uploads, upload_queue>>]_vars

\* C7 witness: link_film has just been refused for title 1, a series
C7_Witness ==
    /\ resp = Reply(1, [code |-> 400, op |-> "link_film",
                        detail |-> "Media is not a film"])
    /\ KindOf(1) = "series"
    /\ pc[1] = "idle"

\* C8: when link_film's write is applied, the film then has exactly one
\* stored attachment and it is the record of that request, whatever was
\* stored for the film before: after any sequence of link_film calls the
\* attachment is the last record linked.
C8_FilmLastWins ==
    [][\A p \in Slots :
          link_film_replace(p)
          => LET doc == arg[p].doc
             IN  /\ {d \in BagToSet(films') : d.media_id = doc.media_id} = {doc}
                 /\ films'[doc] = 1]_vars

\* C8 witness: film 1 has just been linked to the record with handle fB by
\* slot 1 while slot 2 is about to link the same film to another record
C8_Witness ==
    /\ resp = Reply(1, [code |-> 200, op |-> "link_film", success |-> TRUE,
                        film_id |-> 1])
    /\ \E d \in FilmsOf(1) : d.file_id = "fB"
    /\ pc[2] = "film_replace"
    /\ arg[2].doc.media_id = 1
    /\ arg[2].doc.file_id = "fA"

C10_SingleSlot ==
    \A u \in Users : CountIn(uploads, UploadsOf(u)) <= 1

\* ------------------------------------------------------------- delivery
\* streaming_bot: the film branch of handle_callback fetches the film
\* attachment (GET /api/media/film/{film_id}, get_film) and hands the JSON it
\* got to send_video_from_channel.
\*
\* message ids are ints; ZeroRef stands for the int 0, which Python's
\* `if message_id:` treats like None
ZeroRef == "m0"

\* link requests as the API accepts them: message_id is Optional[int]
DeliveryPayloads ==
    Payloads \cup {[file_id |-> "fC", bot_name |-> "botX", message_id |-> ZeroRef]}

\* Python truthiness of an Optional[int]
Truthy(x) == x \notin {None, ZeroRef}

\* send_video_from_channel: the Telegram call it makes
send_video_from_channel(video_data) ==
    IF Truthy(video_data.message_id)
    THEN [op |-> "copy_message", message_id |-> video_data.message_id]
    ELSE [op |-> "send_video", video |-> video_data.file_id]

\* the JSON of get_film: the stored document, or the 404 body, which has
\* neither message_id nor file_id (dict.get gives None)
get_film(film_id) ==
    IF FilmsOf(film_id) = {}
    THEN {[message_id |-> None, file_id |-> None]}
    ELSE {[message_id |-> d.message_id, file_id |-> d.file_id] : d \in FilmsOf(film_id)}

\* handle_callback, data = "film_<id>"
handle_callback_film(p, film_id) ==
    /\ pc[p] = "idle"
    /\ \E film_data \in get_film(film_id) :
           resp' = Reply(p, send_video_from_channel(film_data))
    /\ UNCHANGED <<catalogVars, contentVars, stagingVars, pc, arg, peeked, linked>>

\* Films are created and linked with every message_id the API takes, and
\* played, one request at a time.
NextDelivery ==
    \/ create_media(1, "film")
    \/ \E m \in MediaIds, d \in DeliveryPayloads :
           link_film(1, [film_id |-> m, file_id |-> d.file_id,
                         message_id |-> d.message_id,
                         storage_bot |-> d.bot_name, uploader_id |-> "u1"])
    \/ link_film_replace(1)
    \/ \E m \in MediaIds : Quiet /\ handle_callback_film(1, m)

SpecDelivery == Init /\ [][NextDelivery]_vars

\* C11 (as claimed): playing a linked film whose attachment has a channel
\* reference (message_id present) replays by channel reference,
\* copy_message with that message_id; one whose attachment has only a
\* content handle replays by handle, send_video with that file_id.
C11_ResolverPrecedence ==
    [][\A m \in MediaIds :
          (pc[1] = "idle" /\ FilmsOf(m) # {} /\ handle_callback_film(1, m))
          => \A d \in FilmsOf(m) :
                 resp'.body =
                     IF d.message_id # None
                     THEN [op |-> "copy_message", message_id |-> d.message_id]
                     ELSE [op |-> "send_video", video |-> d.file_id]]_vars

\* C12 (as claimed): a bulk link never writes to an episode the content of
\* a queue entry that a bulk link has written to an episode before: each
\* entry is picked up by at most one invocation.
C12_NoEntryReadTwice ==
    [][\A p \in Slots :
          (pc[p] = "bulk_upsert" /\ pc'[p] = "bulk_dequeue")
          => peeked[p][BulkPos(p)]._id \notin picked]_vars

\* ------------------------------------------------- resuming a bulk link
\* the request is cut while link_season_bulk is in its loop (the server
\* stops, or the client's connection is dropped and the task cancelled):
\* no response, the locals are gone, the writes made so far stay
crash(p) ==
    /\ pc[p] \in {"bulk_upsert", "bulk_dequeue", "bulk_return"}
    /\ pc' = [pc EXCEPT ![p] = "idle"]
    /\ arg' = [arg EXCEPT ![p] = NoArg]
    /\ peeked' = [peeked EXCEPT ![p] = <<>>]
    /\ linked' = [linked EXCEPT ![p] = <<>>]
    /\ resp' = NoResp
    /\ UNCHANGED <<catalogVars, contentVars, stagingVars>>

\* the payloads not yet in u1's queue
FreshPayloads == {d \in Payloads : \A e \in upload_queue : e.file_id # d.file_id}

\* The control bot's season workflow: u1 queues uploads with different
\* content, at increasing timestamps, while nothing is linked yet; then
\* season 1 of title 1 is linked by bulk requests that each ask for as many
\* episodes as the queue holds.  Any replace_one or delete_one may raise and
\* a request may be cut in its loop.
NextResume ==
    \/ \E d \in FreshPayloads, now \in Clock :
           /\ Quiet
           /\ episodes = EmptyBag
           /\ \A e \in upload_queue : e.timestamp < now
           /\ add_to_queue(1, "u1", "u1", d, now)
    \/ \E n \in 1 .. MaxQueue :
           /\ Quiet
           /\ n = Cardinality(UserQueue("u1"))
           /\ link_season_bulk(1, 1, 1, n, "u1")
    \/ \E ok \in BOOLEAN : link_season_bulk_upsert(1, ok)
    \/ \E ok \in BOOLEAN : link_season_bulk_dequeue(1, ok)
    \/ link_season_bulk_return(1)
    \/ crash(1)

SpecResume == Init /\ [][NextResume]_vars

\* C13 (as claimed): in the season workflow every write of a bulk link goes
\* to an episode number that was still unlinked, or rewrites the attachment
\* with the same content: the episodes linked by an earlier run keep the
\* content they were given and a re-run continues at the unlinked numbers.
C13_ResumeKeepsLinked ==
    [][\A p \in Slots :
          (pc[p] = "bulk_upsert" /\ pc'[p] = "bulk_dequeue")
          => \/ EpisodesAt(arg[p].media_id, arg[p].season_number,
                           EpisodeNum(BulkPos(p))) = {}
             \/ episodes' = episodes]_vars

\* the attachment that item i of slot p's batch is to be stored as
BulkDoc(p, i) ==
    EpisodeDoc(arg[p].media_id, arg[p].season_number, EpisodeNum(i),
               peeked[p][i], arg[p].uploader_id)

BulkStored(p, i) ==
    HoldsEpisode(arg[p].media_id, arg[p].season_number, EpisodeNum(i),
                 BulkDoc(p, i))

\* C14: while a bulk link is in its loop (requests served one at a time),
\* every entry of the batch is still queued or its content is stored as the
\* attachment of its episode number; the queue shrinks only in a dequeue
\* step, by exactly the entry of the current item, whose attachment is
\* stored by then; and a request cut at any step leaves the queue and the
\* attachments as they are, so that the same holds after it.
C14_State ==
    \A p \in Slots :
        pc[p] \in {"bulk_upsert", "bulk_dequeue", "bulk_return"}
        => \A i \in 1 .. Len(peeked[p]) :
               peeked[p][i] \in upload_queue \/ BulkStored(p, i)

C14_Step ==
    \A p \in Slots :
        pc[p] \in {"bulk_upsert", "bulk_dequeue", "bulk_return"}
        => /\ upload_queue' # upload_queue
              => /\ pc[p] = "bulk_dequeue"
                 /\ BulkStored(p, BulkPos(p))
                 /\ upload_queue' = upload_queue \ {peeked[p][BulkPos(p)]}
           /\ (pc'[p] = "idle" /\ resp' = NoResp)
              => UNCHANGED <<upload_queue, episodes, films, uploads>>

C14_DequeueAfterUpsert == []C14_State /\ [][C14_Step]_vars

\* C14 witness: a bulk link of two was cut after it had linked and dequeued
\* its first entry; the second is still queued
C14_Witness ==
    /\ pc[1] = "idle"
    /\ resp = NoResp
    /\ picked = {1}
    /\ {e._id : e \in upload_queue} = {2}
    /\ \E d \in EpisodesAt(1, 1, 1) : d.file_id \in {"fA", "fB"}

\* C15: once a bulk link is past its guard, a replace_one or delete_one
\* that raises never ends the request: the step records the item in the
\* details as success = FALSE with the error and the loop goes on; the only
\* response of the request is the 200 with the batch result, one detail per
\* item of the batch in order, whatever number of them failed.
C15_Step ==
    \A p \in Slots :
        /\ (pc[p] = "bulk_upsert" /\ pc'[p] # "bulk_dequeue")
           => /\ linked'[p] = Append(linked[p],
                     [episode |-> BulkPos(p), success |-> FALSE,
                      error |-> "replace_one"])
              /\ pc'[p] \in {"bulk_upsert", "bulk_return"}
              /\ resp' = NoResp
        /\ (pc[p] = "bulk_dequeue" /\ upload_queue' = upload_queue)
           => /\ linked'[p] = Append(linked[p],
                     [episode |-> BulkPos(p), success |-> FALSE,
                      error |-> "delete_one"])
              /\ pc'[p] \in {"bulk_upsert", "bulk_return"}
              /\ resp' = NoResp
        /\ (pc[p] = "bulk_return" /\ pc'[p] = "idle")
           => /\ resp'.slot = p
              /\ resp'.body.code = 200
              /\ resp'.body.details = linked[p]
              /\ Len(linked[p]) = Len(peeked[p])
              /\ \A i \in 1 .. Len(linked[p]) : linked[p][i].episode = i
              /\ resp'.body.linked_successfully = SuccessCount(linked[p])

C15_FailuresNotEscalated == [][C15_Step]_vars

\* C15 witness: a bulk link of two has answered 200 with both items failed
C15_Witness ==
    /\ pc[1] = "idle"
    /\ resp = Reply(1,
           [code |-> 200, op |-> "link_season_bulk",
            media_id |-> 1, season |-> 1, total_episodes |-> 2,
            linked_successfully |-> 0,
            details |-> <<[episode |-> 1, success |-> FALSE, error |-> "replace_one"],
                          [episode |-> 2, success |-> FALSE, error |-> "delete_one"]>>])

\* ------------------------------------------------ catalog and content
\* Titles are created and deleted, films and episode 1 of season 1 linked,
\* and episodes deleted, one request at a time.
NextCatalog ==
    \/ \E t \in MediaTypes : create_media(1, t)
    \/ \E m \in MediaIds : Quiet /\ delete_media(1, m)
    \/ delete_media_films(1)
    \/ delete_media_episodes(1)
    \/ \E m \in MediaIds, d \in Payloads :
           /\ Quiet
           /\ link_film(1, [film_id |-> m, file_id |-> d.file_id,
                            message_id |-> d.message_id,
                            storage_bot |-> d.bot_name, uploader_id |-> "u1"])
    \/ link_film_replace(1)
    \/ \E m \in MediaIds, d \in Payloads : Quiet /\ link_episode(1, m, 1, 1, d, "u1")
    \/ link_episode_replace(1)
    \/ \E m \in MediaIds : Quiet /\ delete_episode(1, m, 1, 1)

SpecCatalog == Init /\ [][NextCatalog]_vars

\* C16 (as claimed): no step removes the attachment of a film, or of an
\* episode key, whose title is in the catalog after the step: the key is
\* still attached (with the same or with newly linked content).
C16_RemovedOnlyWithTitle ==
    [][\A m \in MediaIds :
          Lookup(m)' # {}
          => /\ FilmsOf(m) # {} => FilmsOf(m)' # {}
             /\ \A sn \in Seasons, e \in 1 .. MaxQueue :
                    EpisodesAt(m, sn, e) # {} => EpisodesAt(m, sn, e)' # {}]_vars

\* ------------------------------------------------------------ the queue
\* The queue endpoints with every path and body, one request at a time.
NextQueue ==
    \/ \E u, v \in Users, d \in Payloads, now \in Clock :
           add_to_queue(1, u, v, d, now)
    \/ \E u \in Users : get_queue(1, u)
    \/ \E u \in Users : get_queue_count(1, u)
    \/ \E u \in Users : clear_queue(1, u)
    \/ \E u \in Users, d \in Payloads : remove_from_queue(1, u, d.file_id)

SpecQueue == Init /\ [][NextQueue]_vars

\* C17 (as claimed): POST /{user_id}/queue adds exactly one entry to the
\* queue of the user_id of the path: that user's count is one higher, the
\* new entry is the last of every listing get_queue may give for that user,
\* the queue of every other user is as it was, and the id returned is that
\* of no entry queued before.
C17_EnqueueAppends ==
    [][\A u, v \in Users, d \in Payloads, now \in Clock :
          (pc[1] = "idle" /\ add_to_queue(1, u, v, d, now))
          => /\ Cardinality(UserQueue(u)') = Cardinality(UserQueue(u)) + 1
             /\ \A w \in Users \ {u} : UserQueue(w)' = UserQueue(w)
             /\ \A e \in upload_queue : e._id # resp'.body.id
             /\ \A q \in SortByTimestamp(UserQueue(u))' :
                    q # <<>> /\ q[Len(q)]._id = resp'.body.id]_vars

\* the entries of user_id's queue that DELETE /{user_id}/queue/{file_id}
\* addresses
QueuedAs(user_id, file_id) == {d \in UserQueue(user_id) : d.file_id = file_id}

\* C18 (as claimed): removing an entry that is not queued answers
\* deleted = FALSE and leaves the queue as it was; removing one that is
\* queued answers deleted = TRUE, removes exactly one entry, and leaves none
\* that the same request would find, so that repeating it at once answers
\* deleted = FALSE.
C18_RemoveIdempotent ==
    [][\A u \in Users, d \in Payloads :
          (pc[1] = "idle" /\ remove_from_queue(1, u, d.file_id))
          => IF QueuedAs(u, d.file_id) = {}
             THEN ~resp'.body.deleted /\ upload_queue' = upload_queue
             ELSE /\ resp'.body.deleted
                  /\ \E e \in QueuedAs(u, d.file_id) :
                         upload_queue' = upload_queue \ {e}
                  /\ QueuedAs(u, d.file_id)' = {}]_vars

\* ----------------------------------------------- the whole backend, light
\* Every operation of the two routers, one request at a time.  Two titles
\* are created, title 1 as a series and title 2 as a film; film 2, episode
\* (1, 1, 1) and u1's single slot are written with the content fA; both
\* users queue uploads of fA, u2 at time 1; the bulk links are u1's, for
\* season 1 of title 1, and their delete_one calls succeed.
ContentA == CHOOSE d \in Payloads : d.file_id = "fA"

NextFrame ==
    \/ /\ Quiet
       /\ nextMedia <= 2
       /\ create_media(1, IF nextMedia = 1 THEN "series" ELSE "film")
    \/ \E m \in {1, 2} : Quiet /\ delete_media(1, m)
    \/ delete_media_films(1)
    \/ delete_media_episodes(1)
    \/ /\ Quiet
       /\ link_film(1, [film_id |-> 2, file_id |-> ContentA.file_id,
                        message_id |-> ContentA.message_id,
                        storage_bot |-> ContentA.bot_name,
                        uploader_id |-> "u1"])
    \/ link_film_replace(1)
    \/ Quiet /\ link_episode(1, 1, 1, 1, ContentA, "u1")
    \/ link_episode_replace(1)
    \/ Quiet /\ save_upload(1, "u1", ContentA)
    \/ save_upload_insert(1)
    \/ Quiet /\ get_upload(1, "u1")
    \/ Quiet /\ clear_upload(1, "u1")
    \/ \E now \in Clock : Quiet /\ add_to_queue(1, "u1", "u1", ContentA, now)
    \/ Quiet /\ add_to_queue(1, "u2", "u2", ContentA, 1)
    \/ Quiet /\ get_queue(1, "u1")
    \/ Quiet /\ get_queue_count(1, "u1")
    \/ \E u \in Users : Quiet /\ clear_queue(1, u)
    \/ \E u \in Users : Quiet /\ remove_from_queue(1, u, ContentA.file_id)
    \/ \E n \in 1 .. MaxQueue : Quiet /\ link_season_bulk(1, 1, 1, n, "u1")
    \/ \E ok \in BOOLEAN : link_season_bulk_upsert(1, ok)
    \/ link_season_bulk_dequeue(1, TRUE)
    \/ link_season_bulk_return(1)

SpecFrame == Init /\ [][NextFrame]_vars

\* the listing q without the entries outside S
Among(q, S) == SelectSeq(q, LAMBDA e : e \in S)

\* C19: a step that takes an entry out of the queue is the dequeue step of a
\* bulk link, taking exactly the entry of its current item and recording it
\* as a success, or a remove_from_queue or clear_queue request for that
\* entry's owner; every other step (save_upload, get_upload, clear_upload,
\* add_to_queue, get_queue, get_queue_count, link_film, link_episode, a
\* bulk link refused by its guard, delete_media, ...) leaves every queued
\* entry queued.  And after any step the entries of an owner that stay
\* queued are listed in the same orders, relative to each other, as before.
C19_Step ==
    LET removed == upload_queue \ upload_queue'
    IN  /\ removed # {}
           => \/ \E p \in Slots :
                     /\ pc[p] = "bulk_dequeue"
                     /\ removed = {peeked[p][BulkPos(p)]}
                     /\ linked'[p] = Append(linked[p],
                            [episode |-> BulkPos(p), success |-> TRUE])
              \/ /\ resp' # NoResp
                 /\ resp'.body.op \in {"remove_from_queue", "clear_queue"}
                 /\ removed \subseteq UserQueue(resp'.body.user_id)
        /\ \A u \in Users :
               LET kept == UserQueue(u) \cap UserQueue(u)'
               IN  {Among(q, kept) : q \in SortByTimestamp(UserQueue(u))'}
                   = {Among(q, kept) : q \in SortByTimestamp(UserQueue(u))}

C19_QueueFrame == [][C19_Step]_vars

\* C19 witness: u1's entry is still queued after a film was linked, the
\* single slot written and a bulk link of 2 refused by the guard
C19_Witness ==
    /\ resp = Reply(1, [code |-> 400, op |-> "link_season_bulk",
                        detail |-> "Not enough uploads",
                        found |-> 1, need |-> 2])
    /\ Cardinality(UserQueue("u1")) = 1
    /\ films # EmptyBag
    /\ uploads # EmptyBag


\* ------------------------------------------------------ single-slot trip
\* in the collection coll, user_id's single slot holds exactly the one
\* record doc
SlotHolds(coll, user_id, doc) ==
    /\ {d \in BagToSet(coll) : d.user_id = user_id} = {doc}
    /\ CountIn(coll, {doc}) = 1

\* C20 (as claimed): a completed POST / leaves the owner's slot holding
\* exactly the record it sent; GET /{user_id} answers 404 when the slot is
\* empty and otherwise the record the slot holds; DELETE /{user_id} answers
\* deleted = TRUE exactly when the slot held a record and leaves the slot
\* empty, so that a second DELETE in a row answers FALSE; and no step of the
\* three changes the slot of an owner other than the one it addresses.
C20_SlotRoundTrip ==
    [][/\ \A p \in Slots :
            /\ pc[p] = "idle"
               => \A u \in Users :
                    /\ \A d \in Payloads :
                         (save_upload(p, u, d) /\ resp' # NoResp)
                         => /\ SlotHolds(uploads', u, UploadDoc(u, d))
                            /\ \A w \in Users \ {u} :
                                   UploadsOf(w)' = UploadsOf(w)
                    /\ get_upload(p, u)
                       => IF UploadsOf(u) = {}
                          THEN resp'.body.code = 404
                          ELSE /\ resp'.body.code = 200
                               /\ SlotHolds(uploads, u, resp'.body.upload)
                    /\ clear_upload(p, u)
                       => /\ resp'.body.deleted = (UploadsOf(u) # {})
                          /\ UploadsOf(u)' = {}
                          /\ \A w \in Users \ {u} :
                                 UploadsOf(w)' = UploadsOf(w)
            /\ (pc[p] = "save_insert" /\ save_upload_insert(p))
               => /\ SlotHolds(uploads', arg[p].doc.user_id, arg[p].doc)
                  /\ \A w \in Users \ {arg[p].doc.user_id} :
                         UploadsOf(w)' = UploadsOf(w)]_vars

\* -------------------------------------------------------- clearing a queue
\* C21: DELETE /{user_id}/queue removes every entry of that user's queue
\* and no other: the answer's count is the number the user had queued just
\* before (the count a get_queue_count answered in the step before, when
\* there was one), the user's queue is empty afterwards, and every other
\* user's queue is as it was.
C21_ClearQueue ==
    [][\A u \in Users :
          (pc[1] = "idle" /\ clear_queue(1, u))
          => /\ resp'.body.deleted = Cardinality(UserQueue(u))
             /\ (/\ resp # NoResp
                 /\ resp.body.op = "get_queue_count"
                 /\ resp.body.user_id = u)
                => resp'.body.deleted = resp.body.count
             /\ UserQueue(u)' = {}
             /\ upload_queue \ upload_queue' = UserQueue(u)
             /\ \A w \in Users \ {u} : UserQueue(w)' = UserQueue(w)]_vars

\* C21 witness: u1's queue of one entry has just been cleared while u2 has
\* an entry queued
C21_Witness ==
    /\ resp = Reply(1, [code |-> 200, op |-> "clear_queue", user_id |-> "u1",
                        deleted |-> 1])
    /\ UserQueue("u1") = {}
    /\ UserQueue("u2") # {}

\* -------------------------------------------- two bulk links of one owner
\* u1 queues uploads of the content fA, at timestamps that do not go back;
\* two bulk link requests of u1 are in flight at once, slot 1's for season 1
\* and slot 2's for season 2 of title 1; a delete_one may raise.
NextRace ==
    \/ \E now \in Clock :
           /\ Quiet
           /\ \A e \in upload_queue : e.timestamp <= now
           /\ add_to_queue(1, "u1", "u1", ContentA, now)
    \/ \E p \in Slots :
           \/ \E n \in 1 .. MaxQueue : link_season_bulk(p, 1, p, n, "u1")
           \/ link_season_bulk_upsert(p, TRUE)
           \/ \E ok \in BOOLEAN : link_season_bulk_dequeue(p, ok)
           \/ link_season_bulk_return(p)

SpecRace == Init /\ [][NextRace]_vars

\* C22: nothing keeps a second bulk link of the same owner from the entries
\* a first one is working on.  The find of an invocation yields the oldest
\* entries of the whole queue of the owner, those another invocation has
\* peeked and not yet dequeued included; its replace_one writes the peeked
\* entry's content whether or not the entry is still queued; and its
\* delete_one, when it does not raise, records the item as a success also
\* when the other invocation has already removed the entry.
C22_Step ==
    \A p \in Slots :
        /\ (pc[p] = "idle" /\ pc'[p] = "bulk_upsert")
           => \E s \in SortByTimestamp(UserQueue(arg'[p].uploader_id)) :
                  peeked'[p] = Limit(s, arg'[p].episode_count)
        /\ (pc[p] = "bulk_upsert" /\ pc'[p] = "bulk_dequeue")
           => LET i == BulkPos(p)
              IN  HoldsEpisode(arg[p].media_id, arg[p].season_number, i,
                               BulkDoc(p, i))'
        /\ (pc[p] = "bulk_dequeue" /\ peeked[p][BulkPos(p)] \notin upload_queue)
           => \/ linked'[p] = linked[p]
              \/ linked'[p] = Append(linked[p],
                     [episode |-> BulkPos(p), success |-> TRUE])
              \/ linked'[p] = Append(linked[p],
                     [episode |-> BulkPos(p), success |-> FALSE,
                      error |-> "delete_one"])

C22_ConcurrentBulkRace == [][C22_Step]_vars

\* C22 witness: both invocations peeked the same entry (handle fA), it is
\* now attached to episode 1 of season 1 and to episode 1 of season 2, it
\* has left the queue, and both are about to report the item as a success
C22_Witness ==
    /\ pc[1] = "bulk_return"
    /\ pc[2] = "bulk_return"
    /\ peeked[1] # <<>>
    /\ peeked[1] = peeked[2]
    /\ peeked[1][1] \notin upload_queue
    /\ linked[1] = <<[episode |-> 1, success |-> TRUE]>>
    /\ linked[2] = <<[episode |-> 1, success |-> TRUE]>>
    /\ BulkStored(1, 1)
    /\ BulkStored(2, 1)
    /\ arg[1].season_number # arg[2].season_number

\* ------------------------------------------------- operations of two owners
\* Both users' staging requests and bulk links, two requests in flight in
\* any interleaving.  The uploads carry the content fA; a queue request
\* names one user in its path and one in its body; the bulk links are for
\* season 1 of title 1 and their database calls succeed.
NextOwners ==
    \E p \in Slots :
        \/ \E u, v \in Users : add_to_queue(p, u, v, ContentA, 1)
        \/ \E u \in Users : clear_queue(p, u)
        \/ \E u \in Users : remove_from_queue(p, u, ContentA.file_id)
        \/ \E u \in Users : save_upload(p, u, ContentA)
        \/ save_upload_insert(p)
        \/ \E u \in Users : clear_upload(p, u)
        \/ \E u \in Users, n \in 1 .. MaxQueue : link_season_bulk(p, 1, 1, n, u)
        \/ link_season_bulk_upsert(p, TRUE)
        \/ link_season_bulk_dequeue(p, TRUE)
        \/ link_season_bulk_return(p)

SpecOwners == Init /\ [][NextOwners]_vars

\* the user a staging response's request was addressed to: the user_id of
\* the path, and for save_upload, which has none, that of the body
Addressee(body) ==
    IF body.op = "add_to_queue" THEN body.path_user ELSE body.user_id

\* C23 (as claimed): a bulk link with uploader U peeks only entries of U's
\* queue and its dequeue steps remove only entries of U's queue; and a step
\* that answers a save_upload, clear_upload, add_to_queue, remove_from_queue
\* or clear_queue request addressed to U leaves the single slot and the
\* queue of every other user as they were.
C23_OwnersIndependent ==
    [][/\ \A p \in Slots :
            /\ (pc[p] = "idle" /\ pc'[p] = "bulk_upsert")
               => \A i \in 1 .. Len(peeked'[p]) :
                      peeked'[p][i] \in UserQueue(arg'[p].uploader_id)
            /\ (pc[p] = "bulk_dequeue" /\ pc'[p] # "bulk_dequeue")
               => (upload_queue \ upload_queue')
                      \subseteq UserQueue(arg[p].uploader_id)
       /\ (/\ resp' # NoResp
           /\ resp'.body.op \in {"save_upload", "clear_upload", "add_to_queue",
                                 "remove_from_queue", "clear_queue"})
          => \A w \in Users \ {Addressee(resp'.body)} :
                 /\ UserQueue(w)' = UserQueue(w)
                 /\ UploadsOf(w)' = UploadsOf(w)
                 /\ CountIn(uploads', UploadsOf(w)') = CountIn(uploads, UploadsOf(w))]_vars

\* ------------------------------------------------------ the batch result
\* C24 (as claimed): the 200 answer of a bulk link asked for episode_count
\* episodes has exactly episode_count details, with episode numbers 1, 2,
\* .., episode_count in that order; linked_successfully is the number of
\* details with success = TRUE and at most episode_count; and
\* total_episodes is episode_count.
C24_ResultConsistent ==
    [][\A p \in Slots :
          (pc[p] = "bulk_return" /\ pc'[p] = "idle" /\ resp' # NoResp)
          => LET body == resp'.body
                 n == arg[p].episode_count
             IN  /\ body.total_episodes = n
                 /\ Len(body.details) = n
                 /\ \A i \in 1 .. Len(body.details) : body.details[i].episode = i
                 /\ body.linked_successfully = SuccessCount(body.details)
                 /\ body.linked_successfully <= n]_vars

\* ----------------------------------------- concurrent writes of one key
\* C25: with two link requests in flight, every replace_one of link_film,
\* of link_episode and of a bulk link is applied and answered as a success
\* whatever the other request does to the same key: link_film and
\* link_episode answer 200 with success = TRUE, and right after a write the
\* key holds exactly one attachment, the record of that write, so that of
\* two writes to one key the one applied last is what stays.
C25_Step ==
    \A p \in Slots :
        /\ link_film_replace(p)
           => LET doc == arg[p].doc
              IN  /\ resp' = Reply(p, [code |-> 200, op |-> "link_film",
                                       success |-> TRUE,
                                       film_id |-> doc.media_id])
                  /\ {d \in BagToSet(films') : d.media_id = doc.media_id} = {doc}
                  /\ CountIn(films', {doc}) = 1
        /\ link_episode_replace(p)
           => LET doc == arg[p].doc
              IN  /\ resp' = Reply(p, [code |-> 200, op |-> "link_episode",
                                       success |-> TRUE])
                  /\ {d \in BagToSet(episodes') :
                         /\ d.media_id = doc.media_id
                         /\ d.season_number = doc.season_number
                         /\ d.episode_number = doc.episode_number} = {doc}
                  /\ CountIn(episodes', {doc}) = 1
        /\ (pc[p] = "bulk_upsert" /\ pc'[p] = "bulk_dequeue")
           => LET doc == BulkDoc(p, BulkPos(p))
              IN  /\ {d \in BagToSet(episodes') :
                         /\ d.media_id = doc.media_id
                         /\ d.season_number = doc.season_number
                         /\ d.episode_number = doc.episode_number} = {doc}
                  /\ CountIn(episodes', {doc}) = 1

C25_ConcurrentUpserts == [][C25_Step]_vars

\* C25 witness: slot 2's link_episode of episode (1, 1, 1) with content fA
\* passed its checks, then slot 1's link_episode of the same key with
\* content fB was written and answered 200; slot 2's write is still to come
C25_Witness ==
    /\ resp = Reply(1, [code |-> 200, op |-> "link_episode", success |-> TRUE])
    /\ \E d \in EpisodesAt(1, 1, 1) : d.file_id = "fB"
    /\ pc[2] = "episode_replace"
    /\ arg[2].doc.file_id = "fA"
    /\ arg[2].doc.episode_number = 1

\* ------------------------------------------------------- deleting a title
\* Titles are created, linked and deleted, one request at a time, by
\* requests that spell a title id in lower case or in upper case.  Title 1
\* is a film and the later ones are series; the content linked is fA.
NextSpelling ==
    \/ Quiet /\ create_media(1, IF nextMedia = 1 THEN "film" ELSE "series")
    \/ \E m \in MediaIds : \E id \in {m, UpperCase(m)} :
           Quiet /\ delete_media(1, id)
    \/ delete_media_films(1)
    \/ delete_media_episodes(1)
    \/ \E m \in MediaIds : \E id \in {m, UpperCase(m)} :
           /\ Quiet
           /\ link_film(1, [film_id |-> id, file_id |-> ContentA.file_id,
                            message_id |-> ContentA.message_id,
                            storage_bot |-> ContentA.bot_name,
                            uploader_id |-> "u1"])
    \/ link_film_replace(1)
    \/ \E m \in MediaIds : \E id \in {m, UpperCase(m)} :
           Quiet /\ link_episode(1, id, 1, 1, ContentA, "u1")
    \/ link_episode_replace(1)

SpecSpelling == Init /\ [][NextSpelling]_vars

\* C26 (as claimed): when delete_media answers 200 for a title, no film
\* attachment and no episode attachment whose media_id names that title is
\* left, whatever was linked to the title before (requests served one at a
\* time); and delete_media of an id that is not in the catalog answers 404
\* and leaves films, episodes and the catalog as they were.
C26_Step ==
    \A p \in Slots :
        /\ (pc[p] = "delete_episodes" /\ pc'[p] = "idle")
           => /\ resp' = Reply(p, [code |-> 200, op |-> "delete_media",
                                   deleted |-> TRUE])
              /\ \A d \in BagToSet(films') :
                     ObjectId(d.media_id) # ObjectId(arg[p].media_id)
              /\ \A d \in BagToSet(episodes') :
                     ObjectId(d.media_id) # ObjectId(arg[p].media_id)
              /\ Lookup(arg[p].media_id) = {}
        /\ pc[p] = "idle"
           => \A m \in MediaIds : \A id \in {m, UpperCase(m)} :
                  (Lookup(id) = {} /\ delete_media(p, id))
                  => /\ resp' = Reply(p, [code |-> 404, op |-> "delete_media",
                                          detail |-> "Media not found"])
                     /\ UNCHANGED <<media, films, episodes>>

C26_DeleteCascades == [][C26_Step]_vars

\* ------------------------------------------------ a replay that may fail
\* Bot API methods of the two replay plans
ReplayMethods == {"copy_message", "send_video"}

\* send_video_from_channel with the outcome of its Telegram call, `fails`
\* being the methods that raise when called now: the calls made, and the
\* exception that leaves the function (`raise` in the except branch
\* re-raises the one it caught)
SendOutcomeFallback(video_data, fails) ==
    LET call == send_video_from_channel(video_data)
        retry == [op |-> "send_video", video |-> video_data.file_id]
    IN  IF call.op = "copy_message" /\ call.op \in fails
        THEN [op |-> "send_video_from_channel", calls |-> <<call, retry>>,
              raised |-> (retry.op \in fails),
              error |-> IF retry.op \in fails THEN retry.op ELSE None]
        ELSE [op |-> "send_video_from_channel", calls |-> <<call>>,
              raised |-> (call.op \in fails),
              error |-> IF call.op \in fails THEN call.op ELSE None]

SendOutcome(video_data, fails) ==
    LET call == send_video_from_channel(video_data)
    IN  [op |-> "send_video_from_channel", calls |-> <<call>>,
         raised |-> (call.op \in fails),
         error |-> IF call.op \in fails THEN call.op ELSE None]

\* handle_callback, data = "film_<id>", with the outcome of the replay
handle_callback_film_outcome(p, film_id, fails) ==
    /\ pc[p] = "idle"
    /\ \E film_data \in get_film(film_id) :
           resp' = Reply(p, SendOutcome(film_data, fails))
    /\ UNCHANGED <<catalogVars, contentVars, stagingVars, pc, arg, peeked, linked>>

\* Films are created and linked with a channel reference (fA) or without
\* (fB), and played while either Bot API method may be failing.
NextReplay ==
    \/ create_media(1, "film")
    \/ \E m \in MediaIds, d \in Payloads :
           link_film(1, [film_id |-> m, file_id |-> d.file_id,
                         message_id |-> d.message_id,
                         storage_bot |-> d.bot_name, uploader_id |-> "u1"])
    \/ link_film_replace(1)
    \/ \E m \in MediaIds, fails \in SUBSET ReplayMethods :
           Quiet /\ handle_callback_film_outcome(1, m, fails)

SpecReplay == Init /\ [][NextReplay]_vars

\* C27: send_video_from_channel makes exactly one Telegram call, that of
\* the plan it chose.  When the call raises, the exception of that call
\* leaves the function and no other call is made: a failed copy_message is
\* not followed by a send_video with the file_id, nor a failed send_video
\* by anything.  When it does not raise, nothing is raised.
C27_SingleAttempt ==
    [][\A m \in MediaIds, fails \in SUBSET ReplayMethods :
          (pc[1] = "idle" /\ handle_callback_film_outcome(1, m, fails))
          => LET body == resp'.body
             IN  /\ Len(body.calls) = 1
                 /\ body.raised = (body.calls[1].op \in fails)
                 /\ body.error =
                        IF body.raised THEN body.calls[1].op ELSE None]_vars

\* C27 witness: a film whose attachment has both a channel reference and a
\* content handle was played while copy_message was failing: the one call
\* made was copy_message and its exception was raised
C27_Witness ==
    /\ resp = Reply(1, [op |-> "send_video_from_channel",
                        calls |-> <<[op |-> "copy_message", message_id |-> "m1"]>>,
                        raised |-> TRUE, error |-> "copy_message"])
    /\ \E d \in FilmsOf(1) : d.file_id = "fA" /\ d.message_id = "m1"

\* ------------------------------------------------ the loop of a bulk link
\* u1 queues uploads and links season 1 of title 1 by bulk requests, one
\* at a time; any replace_one or delete_one may raise.
NextLoop ==
    \/ \E d \in Payloads : Quiet /\ add_to_queue(1, "u1", "u1", d, 1)
    \/ \E n \in 1 .. MaxQueue : Quiet /\ link_season_bulk(1, 1, 1, n, "u1")
    \/ \E ok \in BOOLEAN : link_season_bulk_upsert(1, ok)
    \/ \E ok \in BOOLEAN : link_season_bulk_dequeue(1, ok)
    \/ link_season_bulk_return(1)

\* an awaited database call returns or raises, and the event loop then
\* resumes the handler: each step of the loop, once enabled, is taken
SpecLoop ==
    /\ Init
    /\ [][NextLoop]_vars
    /\ WF_vars(\E ok \in BOOLEAN : link_season_bulk_upsert(1, ok))
    /\ WF_vars(\E ok \in BOOLEAN : link_season_bulk_dequeue(1, ok))
    /\ WF_vars(link_season_bulk_return(1))

\* slot p's bulk link is between its guard and its response
InLoop(p) == pc[p] \in {"bulk_upsert", "bulk_dequeue", "bulk_return"}

\* C28: a bulk link that has passed its guard works through the peeked
\* entries in order, each exactly once: the batch it peeked does not change,
\* every step either stays at the current item (its upsert was applied) or
\* records one detail for the current item and moves to the next one,
\* failed or not, the response comes only when the last peeked entry has its
\* detail, and nothing but that response ends the request.  And the request
\* always ends: a bulk link in its loop leads to its 200 response.
C28_Step ==
    \A p \in Slots :
        InLoop(p)
        => /\ pc'[p] # "idle" => peeked'[p] = peeked[p]
           /\ pc[p] = "bulk_upsert"
              => /\ BulkPos(p) <= Len(peeked[p])
                 /\ \/ pc'[p] = "bulk_dequeue" /\ linked'[p] = linked[p]
                    \/ /\ Len(linked'[p]) = Len(linked[p]) + 1
                       /\ linked'[p][BulkPos(p)].episode = BulkPos(p)
                       /\ pc'[p] = IF BulkPos(p) = Len(peeked[p])
                                   THEN "bulk_return" ELSE "bulk_upsert"
           /\ pc[p] = "bulk_dequeue"
              => /\ Len(linked'[p]) = Len(linked[p]) + 1
                 /\ linked'[p][BulkPos(p)].episode = BulkPos(p)
                 /\ pc'[p] = IF BulkPos(p) = Len(peeked[p])
                             THEN "bulk_return" ELSE "bulk_upsert"
           /\ pc[p] = "bulk_return"
              => /\ Len(linked[p]) = Len(peeked[p])
                 /\ pc'[p] = "idle"
                 /\ resp' # NoResp
                 /\ resp'.body.code = 200
                 /\ Len(resp'.body.details) = Len(peeked[p])

C28_RunsToCompletion ==
    /\ [][C28_Step]_vars
    /\ InLoop(1) ~> (pc[1] = "idle" /\ resp # NoResp)

\* C28 witness: a bulk link of two is at its second entry after the upsert
\* of its first one failed
C28_Witness ==
    /\ pc[1] = "bulk_upsert"
    /\ Len(peeked[1]) = 2
    /\ linked[1] = <<[episode |-> 1, success |-> FALSE, error |-> "replace_one"]>>

\* ------------------------------------------------------- updating a title
\* the fields of MediaUpdate (models.py): a request body is validated
\* against them and keys that are not fields are dropped
MediaUpdateFieldsAndType == {"title", "year", "description", "genre", "type"}

MediaUpdateFields == {"title", "year", "description", "genre"}

\* PATCH bodies: a new title together with a type, a type alone, and a
\* body whose only field is null
UpdateBodies ==
    { [title |-> "as film", type |-> "film"],
      [title |-> "as series", type |-> "series"],
      [type |-> "film"],
      [type |-> "series"],
      [title |-> None] }

\* data.model_dump() without the None values
Updates(body) ==
    [k \in {f \in DOMAIN body \cap MediaUpdateFields : body[f] # None} |-> body[k]]

\* {"$set": updates} applied to a document
SetFields(doc, updates) ==
    [k \in DOMAIN doc \cup DOMAIN updates |->
        IF k \in DOMAIN updates THEN updates[k] ELSE doc[k]]

\* PATCH /{media_id}: find_one_and_update, answered with the new document
update_media(p, media_id, body) ==
    /\ pc[p] = "idle"
    /\ IF DOMAIN Updates(body) = {}
       THEN /\ resp' = Reply(p, [code |-> 400, op |-> "update_media",
                                 detail |-> "No updates provided"])
            /\ UNCHANGED media
       ELSE IF media_id = InvalidId
       THEN /\ resp' = Reply(p, [code |-> 400, op |-> "update_media",
                                 detail |-> "Invalid media ID"])
            /\ UNCHANGED media
       ELSE IF Lookup(media_id) = {}
       THEN /\ resp' = Reply(p, [code |-> 404, op |-> "update_media",
                                 detail |-> "Media not found"])
            /\ UNCHANGED media
       ELSE \E m \in Lookup(media_id) :
                /\ media' = (media \ {m}) \cup {SetFields(m, Updates(body))}
                /\ resp' = Reply(p, [code |-> 200, op |-> "update_media",
                                     doc |-> SetFields(m, Updates(body))])
    /\ UNCHANGED <<nextMedia, contentVars, stagingVars, pc, localVars>>

\* Slot 1 creates and deletes titles and links films and episodes (content
\* fA, episode 1 of season 1); slot 2 serves update requests, also between
\* the check and the write of a link.
NextKind ==
    \/ \E t \in MediaTypes : create_media(1, t)
    \/ \E m \in MediaIds : delete_media(1, m)
    \/ delete_media_films(1)
    \/ delete_media_episodes(1)
    \/ \E m \in MediaIds :
           link_film(1, [film_id |-> m, file_id |-> ContentA.file_id,
                         message_id |-> ContentA.message_id,
                         storage_bot |-> ContentA.bot_name,
                         uploader_id |-> "u1"])
    \/ link_film_replace(1)
    \/ \E m \in MediaIds : link_episode(1, m, 1, 1, ContentA, "u1")
    \/ link_episode_replace(1)
    \/ \E m \in MediaIds \cup {InvalidId}, body \in UpdateBodies :
           update_media(2, m, body)

SpecKind == Init /\ [][NextKind]_vars

\* C29: no step changes the type of a title that is in the catalog before
\* and after it, whatever an update request's body carries; and a link
\* request that has passed its kind check writes for a title that is still
\* of that kind (a film for link_film, a series for link_episode) whatever
\* updates were served in between.
C29_State ==
    \A p \in Slots :
        /\ pc[p] = "film_replace" => KindOf(arg[p].doc.media_id) = "film"
        /\ pc[p] = "episode_replace" => KindOf(arg[p].doc.media_id) = "series"

C29_Step ==
    \A m \in MediaIds :
        (Lookup(m) # {} /\ Lookup(m)' # {})
        => /\ Cardinality(Lookup(m)') = 1
           /\ KindOf(m)' = KindOf(m)

C29_KindImmutable == []C29_State /\ [][C29_Step]_vars

\* C29 witness: title 1, a film, has just been updated by a request whose
\* body named the type series, while a link_film for it is between its
\* check and its write
C29_Witness ==
    /\ resp = Reply(2, [code |-> 200, op |-> "update_media",
                        doc |-> [id |-> 1, type |-> "film",
                                 title |-> "as series"]])
    /\ pc[1] = "film_replace"
    /\ arg[1].doc.media_id = 1

\* ---------------------------------------------------- the same content twice
\* C30: the queue does not deduplicate.  Every add_to_queue that is
\* answered adds one entry with an _id no queued entry has, also when the
\* user already has an entry with the same file_id; get_queue_count counts
\* entries, not distinct file_ids; and a bulk link that reports all its
\* items as successes has stored the content of its i-th peeked entry as
\* episode i, the same file_id at consecutive numbers when the entries
\* carry the same one, and has dequeued every one of them.
C30_Step ==
    /\ (resp' # NoResp /\ resp'.body.op = "add_to_queue")
       => \E e \in upload_queue' :
              /\ e._id = resp'.body.id
              /\ \A d \in upload_queue : d._id # e._id
              /\ upload_queue' = upload_queue \cup {e}
    /\ (resp' # NoResp /\ resp'.body.op = "get_queue_count")
       => resp'.body.count =
              Cardinality({e._id : e \in UserQueue(resp'.body.user_id)})
    /\ \A p \in Slots :
           (pc[p] = "bulk_return" /\ pc'[p] = "idle" /\ AllSucceeded(linked[p]))
           => \A i \in 1 .. Len(peeked[p]) :
                  /\ peeked[p][i] \notin upload_queue
                  /\ \E d \in EpisodesAt(arg[p].media_id, arg[p].season_number, i) :
                         d.file_id = peeked[p][i].file_id

C30_NoDeduplication == [][C30_Step]_vars

\* C30 witness: u1 had two entries with the file_id fA; a bulk link of two
\* has answered with both items linked, episodes 1 and 2 of season 1 both
\* hold fA and u1's queue is empty
C30_Witness ==
    /\ resp = Reply(1,
           [code |-> 200, op |-> "link_season_bulk",
            media_id |-> 1, season |-> 1, total_episodes |-> 2,
            linked_successfully |-> 2,
            details |-> <<[episode |-> 1, success |-> TRUE],
                          [episode |-> 2, success |-> TRUE]>>])
    /\ \E d \in EpisodesAt(1, 1, 1) : d.file_id = "fA"
    /\ \E d \in EpisodesAt(1, 1, 2) : d.file_id = "fA"
    /\ UserQueue("u1") = {}
    /\ picked = {1, 2}

\* ------------------------------------------------- no more than asked for
\* C31 (as claimed): a bulk link asked for episode_count entries writes at
\* most max(episode_count, 0) attachments and removes at most that many
\* queue entries: the item its loop is at, the only one it writes and
\* dequeues, never has a position beyond max(episode_count, 0), so that a
\* request for 0 or fewer never enters the loop.
C31_NeverMoreThanAsked ==
    \A p \in Slots :
        pc[p] \in {"bulk_upsert", "bulk_dequeue"}
        => /\ BulkPos(p) <= (IF arg[p].episode_count > 0
                             THEN arg[p].episode_count ELSE 0)
           /\ Len(peeked[p]) <= (IF arg[p].episode_count > 0
                                 THEN arg[p].episode_count ELSE 0)

\* ---------------------------------------------------- frame of a bulk link
\* slot p's handler takes this step
StepOf(p) == pc'[p] # pc[p] \/ linked'[p] # linked[p] \/ peeked'[p] # peeked[p]

\* C32 (as claimed): a step of link_season_bulk(media_id, season_number, n,
\* uploader_id) leaves the catalog, the films and the single slots as they
\* are, changes no queue entry but the uploader's, and changes the number of
\* copies of no episode attachment but those keyed (media_id,
\* season_number, 1 .. n).
C32_Step ==
    \A p \in Slots :
        (InLoop(p) /\ StepOf(p))
        => /\ UNCHANGED <<media, nextMedia, films, uploads>>
           /\ \A e \in (upload_queue \ upload_queue') \cup
                       (upload_queue' \ upload_queue) :
                  e.user_id = arg[p].uploader_id
           /\ \A d \in BagToSet(episodes) \cup BagToSet(episodes') :
                  \/ /\ d.media_id = arg[p].media_id
                     /\ d.season_number = arg[p].season_number
                     /\ d.episode_number \in 1 .. arg[p].episode_count
                  \/ CopiesIn(d, episodes') = CopiesIn(d, episodes)

C32_BulkFrame == [][C32_Step]_vars

\* ------------------------------------------- successes and actual removals
\* C33 (as claimed): with other requests of the same user in flight, a bulk
\* link writes an episode only from an entry that is still queued when the
\* write runs, and records an item as a success only when its own
\* delete_one removed the entry, so that linked_successfully is the number
\* of entries the invocation itself deleted.
C33_Step ==
    \A p \in Slots :
        /\ (pc[p] = "bulk_upsert" /\ pc'[p] = "bulk_dequeue")
           => peeked[p][BulkPos(p)] \in upload_queue
        /\ (/\ pc[p] = "bulk_dequeue"
            /\ Len(linked'[p]) = Len(linked[p]) + 1
            /\ linked'[p][BulkPos(p)].success)
           => /\ peeked[p][BulkPos(p)] \in upload_queue
              /\ peeked[p][BulkPos(p)] \notin upload_queue'

C33_SuccessMeansRemoved == [][C33_Step]_vars

\* ------------------------------------------- enqueue during a bulk link
\* u1's uploads arrive on slot 2 at any time, also while slot 1 is in the
\* loop of a bulk link of u1 (season 1 of title 1), whose database calls
\* may raise.
NextDuring ==
    \/ \E d \in Payloads, now \in Clock : add_to_queue(2, "u1", "u1", d, now)
    \/ \E n \in 1 .. MaxQueue : link_season_bulk(1, 1, 1, n, "u1")
    \/ \E ok \in BOOLEAN : link_season_bulk_upsert(1, ok)
    \/ \E ok \in BOOLEAN : link_season_bulk_dequeue(1, ok)
    \/ link_season_bulk_return(1)

SpecDuring == Init /\ [][NextDuring]_vars

\* the peeked entries slot p's loop has not dealt with yet
Pending(p) == {peeked[p][i] : i \in BulkPos(p) .. Len(peeked[p])}

\* C34 (as claimed): an add_to_queue served while a bulk link of the same
\* user is in its loop leaves the batch, the details and the position of
\* that loop as they are, and the new entry is listed behind every entry of
\* the user's queue that the loop is not going to consume; the loop goes on
\* to write position i from its i-th peeked entry and removes peeked
\* entries only, so the new entry is still queued when the link answers.
C34_Step ==
    \A p \in Slots :
        InLoop(p)
        => /\ (resp' # NoResp /\ resp'.body.op = "add_to_queue")
              => /\ peeked'[p] = peeked[p]
                 /\ linked'[p] = linked[p]
                 /\ pc'[p] = pc[p]
                 /\ \A e \in UserQueue(arg[p].uploader_id)' \ upload_queue :
                    \A q \in SortByTimestamp(UserQueue(arg[p].uploader_id))' :
                    \A i, j \in 1 .. Len(q) :
                        (q[i] = e /\ q[j] \notin Pending(p) /\ j # i) => j < i
           /\ StepOf(p)
              => /\ (upload_queue \ upload_queue') \subseteq Range(peeked[p])
                 /\ pc[p] = "bulk_upsert" /\ pc'[p] = "bulk_dequeue"
                    => \E d \in BagToSet(episodes') :
                           /\ d.episode_number = BulkPos(p)
                           /\ d.file_id = peeked[p][BulkPos(p)].file_id

C34_EnqueueDuringBulk == [][C34_Step]_vars

\* C35: referential integrity of the content store: in every reachable
\* state every film attachment refers to a title that exists in the catalog
\* with kind film, and every episode attachment to a title that exists with
\* kind series.
C35_ReferentialIntegrity ==
    /\ \A d \in BagToSet(films) :
           \E m \in Lookup(d.media_id) : m.type = "film"
    /\ \A d \in BagToSet(episodes) :
           \E m \in Lookup(d.media_id) : m.type = "series"

\* ==================================================== the bots' workflows
\* The bots are HTTP clients of the backend.  Every call is `await
\* client.post/get/delete(...)` of httpx with no raise_for_status() and no
\* look at response.status_code: an answer with an error status is a normal
\* return value, and only a transport failure raises.  A workflow occupies a
\* request slot from its first call to its reply; each of its steps is one
\* backend call, with the effect of the handler that serves it.

\* what the storage bot stages: the file_id and message_id of the message it
\* forwarded to the storage channel (always a message id), under its BOT_NAME
Forwards ==
    { [file_id |-> "fA", bot_name |-> "botX", message_id |-> "m1"],
      [file_id |-> "fB", bot_name |-> "botX", message_id |-> "m2"] }

\* how a backend call of save_to_backend may end: served, answered with an
\* error status (401/403 of require_api_key, 422, 500), or not answered
\* (httpx raises)
WriteOutcomes == {"ok", "status", "raise"}

\* ----------------------------------------- storage_bot: handle_video
\* forward_message to the storage channel; a failure goes to the handler's
\* except branch, which replies "Upload failed"
handle_video(p, user_id, forwarded, forward_ok) ==
    /\ pc[p] = "idle"
    /\ IF forward_ok
       THEN /\ pc' = [pc EXCEPT ![p] = "save_single"]
            /\ arg' = [arg EXCEPT ![p] =
                   [op |-> "handle_video", user_id |-> user_id,
                    data |-> forwarded, single |-> "none", queue |-> "none"]]
            /\ resp' = NoResp
       ELSE /\ resp' = Reply(p,
                   [op |-> "handle_video", text |-> "Upload failed",
                    user_id |-> user_id, data |-> forwarded])
            /\ UNCHANGED <<pc, arg>>
    /\ UNCHANGED <<catalogVars, contentVars, stagingVars, peeked, linked>>

\* save_to_backend, first call: POST /api/uploads/ (save_upload).  The
\* response is dropped; an exception leaves the `async with` and is logged.
save_to_backend_single(p, outcome) ==
    /\ pc[p] = "save_single"
    /\ IF outcome = "ok"
       THEN \E c \in ReplaceOneUpsert(uploads, UploadsOf(arg[p].user_id),
                         UploadDoc(arg[p].user_id, arg[p].data)) :
                uploads' = c
       ELSE UNCHANGED uploads
    /\ pc' = [pc EXCEPT ![p] = IF outcome = "raise" THEN "video_reply"
                                                   ELSE "save_queue"]
    /\ arg' = [arg EXCEPT ![p].single = outcome]
    /\ resp' = NoResp
    /\ UNCHANGED <<catalogVars, contentVars, upload_queue, nextOid, peeked, linked>>

\* save_to_backend, second call: POST /api/uploads/{user_id}/queue
\* (add_to_queue), handled in the same way
save_to_backend_queue(p, outcome, now) ==
    /\ pc[p] = "save_queue"
    /\ IF outcome = "ok"
       THEN /\ nextOid <= MaxQueue
            /\ upload_queue' = upload_queue \cup
                   { [_id |-> nextOid, user_id |-> arg[p].user_id,
                      file_id |-> arg[p].data.file_id,
                      bot_name |-> arg[p].data.bot_name,
                      message_id |-> arg[p].data.message_id,
                      timestamp |-> now] }
            /\ nextOid' = nextOid + 1
       ELSE UNCHANGED <<upload_queue, nextOid>>
    /\ pc' = [pc EXCEPT ![p] = "video_reply"]
    /\ arg' = [arg EXCEPT ![p].queue = outcome]
    /\ resp' = NoResp
    /\ UNCHANGED <<catalogVars, contentVars, uploads, peeked, linked>>

\* save_to_backend returns None whatever happened, and handle_video goes on
\* to reply "Video uploaded! ... Added to queue for linking"
handle_video_reply(p) ==
    /\ pc[p] = "video_reply"
    /\ resp' = Reply(p,
           [op |-> "handle_video", text |-> "Video uploaded",
            user_id |-> arg[p].user_id, data |-> arg[p].data])
    /\ pc' = [pc EXCEPT ![p] = "idle"]
    /\ arg' = [arg EXCEPT ![p] = NoArg]
    /\ UNCHANGED <<catalogVars, contentVars, stagingVars, peeked, linked>>

\* ------------------------------------------- control_bot: /linkfilm
\* (control_bot's link_film; the user is an admin, else the handler returns
\* before its first backend call.)  GET /api/uploads/{user_id}: with no
\* upload the answer is {"detail": ...}, and upload["file_id"] raises
\* KeyError when the link request is built, before it is sent.
linkfilm(p, user_id, film_id) ==
    /\ pc[p] = "idle"
    /\ IF UploadsOf(user_id) = {}
       THEN /\ resp' = Reply(p,
                   [op |-> "linkfilm", text |-> "Error",
                    user_id |-> user_id, film_id |-> film_id])
            /\ UNCHANGED <<pc, arg>>
       ELSE /\ \E upload \in UploadsOf(user_id) :
                   arg' = [arg EXCEPT ![p] =
                       [op |-> "linkfilm", user_id |-> user_id,
                        film_id |-> film_id, upload |-> upload,
                        link |-> Pass]]
            /\ pc' = [pc EXCEPT ![p] = "linkfilm_link"]
            /\ resp' = NoResp
    /\ UNCHANGED <<catalogVars, contentVars, stagingVars, peeked, linked>>

\* POST /api/media/film/link, the checks of link_film; the answer is not
\* looked at, so after a 400 or 404 the workflow goes on to its next call
linkfilm_link(p) ==
    /\ pc[p] = "linkfilm_link"
    /\ arg' = [arg EXCEPT ![p].link = FilmCheck(arg[p].film_id)]
    /\ pc' = [pc EXCEPT ![p] = IF FilmCheck(arg[p].film_id) = Pass
                               THEN "linkfilm_replace"
                               ELSE "linkfilm_clear"]
    /\ resp' = NoResp
    /\ UNCHANGED <<catalogVars, contentVars, stagingVars, peeked, linked>>

\* ... and the replace_one of link_film
linkfilm_replace(p) ==
    /\ pc[p] = "linkfilm_replace"
    /\ LET doc == FilmDoc([film_id |-> arg[p].film_id,
                           file_id |-> arg[p].upload.file_id,
                           message_id |-> arg[p].upload.message_id,
                           storage_bot |-> arg[p].upload.bot_name,
                           uploader_id |-> arg[p].user_id])
       IN  \E c \in ReplaceOneUpsert(films, FilmsOf(arg[p].film_id), doc) :
               films' = c
    /\ pc' = [pc EXCEPT ![p] = "linkfilm_clear"]
    /\ resp' = NoResp
    /\ UNCHANGED <<catalogVars, episodes, picked, stagingVars, localVars>>

\* DELETE /api/uploads/{user_id} (clear_upload)
linkfilm_clear(p) ==
    /\ pc[p] = "linkfilm_clear"
    /\ IF UploadsOf(arg[p].user_id) = {}
       THEN uploads' = uploads
       ELSE \E d \in UploadsOf(arg[p].user_id) : uploads' = RemoveOne(uploads, d)
    /\ pc' = [pc EXCEPT ![p] = "linkfilm_details"]
    /\ resp' = NoResp
    /\ UNCHANGED <<catalogVars, contentVars, upload_queue, nextOid, localVars>>

\* GET /api/media/{film_id} (get_media) and the reply: media['title'] raises
\* KeyError on the {"detail": ...} of a 400 or 404, else "Film linked!"
linkfilm_details(p) ==
    /\ pc[p] = "linkfilm_details"
    /\ resp' = Reply(p,
           [op |-> "linkfilm",
            text |-> IF arg[p].film_id = InvalidId \/ Lookup(arg[p].film_id) = {}
                     THEN "Error" ELSE "Film linked",
            user_id |-> arg[p].user_id, film_id |-> arg[p].film_id])
    /\ pc' = [pc EXCEPT ![p] = "idle"]
    /\ arg' = [arg EXCEPT ![p] = NoArg]
    /\ UNCHANGED <<catalogVars, contentVars, stagingVars, peeked, linked>>

\* one admin's uploads and /linkfilm commands, a title of either kind, and
\* the admin's bulk link
NextBots ==
    \/ \E t \in MediaTypes : nextMedia <= 1 /\ create_media(1, t)
    \/ \E f \in Forwards, ok \in BOOLEAN : handle_video(2, "u1", f, ok)
    \/ \E o \in WriteOutcomes : save_to_backend_single(2, o)
    \/ \E o \in WriteOutcomes : save_to_backend_queue(2, o, 1)
    \/ handle_video_reply(2)
    \/ \E m \in {1, 2, InvalidId} : linkfilm(1, "u1", m)
    \/ linkfilm_link(1)
    \/ linkfilm_replace(1)
    \/ linkfilm_clear(1)
    \/ linkfilm_details(1)
    \/ \E n \in 1 .. MaxQueue : link_season_bulk(1, 1, 1, n, "u1")
    \/ link_season_bulk_upsert(1, TRUE)
    \/ link_season_bulk_dequeue(1, TRUE)
    \/ link_season_bulk_return(1)

SpecBots == Init /\ [][NextBots]_vars

\* ------------------------------------------------------------------ C36
\* C36: in the /linkfilm workflow the owner's single-slot record is consumed
\* only by a successful link: a step of the workflow whose link call was
\* answered NotFound, WrongKind or invalid id, or that found no last upload,
\* leaves the owner's single-slot records as they were.
C36_Step ==
    \A p \in Slots :
        /\ (pc[p] = "idle" /\ resp' # NoResp /\ resp'.slot = p
              /\ resp'.body.op = "linkfilm")
           => uploads' = uploads
        /\ (pc[p] \in {"linkfilm_link", "linkfilm_clear", "linkfilm_details"}
              /\ pc'[p] # pc[p]
              /\ (pc[p] = "linkfilm_link" \/ arg[p].link # Pass))
           => {d \in BagToSet(uploads') : d.user_id = arg[p].user_id}
                 = UploadsOf(arg[p].user_id)

C36_ConsumedOnlyBySuccess == [][C36_Step]_vars

\* ------------------------------------------------------------------ C37
\* C37: an upload consumed by linking it to a film is no longer staged
\* anywhere: when a /linkfilm workflow whose link succeeded has cleared the
\* slot and replies, the upload it linked is neither in the owner's single
\* slot nor in the owner's queue; and no bulk link writes, as an episode, an
\* upload that is attached to a film.
Staged(coll, user_id, upload) ==
    \E d \in coll :
        /\ d.user_id = user_id
        /\ d.file_id = upload.file_id
        /\ d.message_id = upload.message_id

C37_Step ==
    \A p \in Slots :
        /\ (pc[p] = "linkfilm_details" /\ pc'[p] = "idle" /\ arg[p].link = Pass)
           => /\ ~Staged(BagToSet(uploads'), arg[p].user_id, arg[p].upload)
              /\ ~Staged(upload_queue', arg[p].user_id, arg[p].upload)
        /\ (pc[p] = "bulk_upsert" /\ pc'[p] = "bulk_dequeue")
           => ~\E f \in BagToSet(films) :
                  /\ f.uploader_id = arg[p].uploader_id
                  /\ f.file_id = peeked[p][BulkPos(p)].file_id
                  /\ f.message_id = peeked[p][BulkPos(p)].message_id

C37_ConsumedNotStaged == [][C37_Step]_vars

\* ------------------------------------------------------------------ C38
\* C38: the upload workflow acknowledges an upload only when the record was
\* staged: at the step where handle_video sends its success reply, the
\* record is the owner's single-slot record and the last entry of the
\* owner's queue, and neither backend write of the workflow had failed.
C38_Step ==
    \A p \in Slots :
        (pc[p] = "video_reply" /\ pc'[p] = "idle"
           /\ resp'.body.text = "Video uploaded")
        => /\ arg[p].single = "ok"
           /\ arg[p].queue = "ok"
           /\ UploadsOf(arg[p].user_id) = {UploadDoc(arg[p].user_id, arg[p].data)}
           /\ UserQueue(arg[p].user_id) # {}
           /\ \A q \in SortByTimestamp(UserQueue(arg[p].user_id)) :
                  /\ q[Len(q)].file_id = arg[p].data.file_id
                  /\ q[Len(q)].message_id = arg[p].data.message_id

C38_AcknowledgedMeansStaged == [][C38_Step]_vars

====
